---- MODULE Spec2Model ----
(***************************************************************************)
(* Transfer orchestration engine of google-to-smartsheet.                  *)
(*                                                                         *)
(* The model follows src/src/services/transfer.ts (TransferService), the   *)
(* job store of src/unnamed/part_009 (SQLiteDatabaseManager) and the       *)
(* destination client of src/unnamed/part_008 (SmartsheetAPIService).      *)
(*                                                                         *)
(* Granularity.  The job store is better-sqlite3, whose calls are          *)
(* synchronous: an `await database.x()` resolves in the same microtask     *)
(* drain and lets no other request handler run.  A flow can therefore be   *)
(* interleaved with other flows only where it waits for the network        *)
(* (token refresh, source read, destination read, row insert, image        *)
(* download / attach / fallback write).  Each action below is one such     *)
(* segment: it starts when a network call returns (or the operation is     *)
(* invoked) and runs up to the next network call.                          *)
(***************************************************************************)
EXTENDS Integers, Sequences, FiniteSets, TLC

(* ---- bounds of the model ---- *)
NumFlows == 2
MaxTabs == 2
MaxCols == 2
MaxFullBatches == 1
MaxImages == 2
MaxBadRows == 2
MaxCancels == 1
MaxStoreFaults == 1
MaxDryRunImages == 60

(* ---- program constants ---- *)
batchSize == 50

(* an optional number that is absent (undefined) *)
Undefined == 0 - 1

Procs == 1..NumFlows

Min2(a, b) == IF a < b THEN a ELSE b

CeilDiv(a, b) == (a + b - 1) \div b

(* Row counts a fetched tab may have, header row included: 0 (empty or     *)
(* unreadable tab), 1 (header only), and 1 data row beyond f full batches. *)
TabLens == {0, 1} \cup {1 + f * batchSize + 1 : f \in 0..MaxFullBatches}

(* Candidate image cells <<row, column>> of the first tab (row 0 is the    *)
(* header row of the fetched range).                                       *)
ImgCands == {<<0, 1>>, <<1, 1>>, <<batchSize + 1, 1>>}

(* Candidate source rows <<tab, row>> that the destination does not accept *)
BadCands == {<<1, 1>>, <<1, batchSize + 1>>, <<2, 1>>}

VARIABLES
  job,        \* the persisted job record (transfer_jobs row)
  tokens,     \* TRUE iff the user has both googleTokens and smartsheetTokens
  tabLen,     \* source: per tab, number of rows from the header row on
  imgCells,   \* source: cells <<row, col>> of tab 1 that classify as image
  badRows,    \* source rows <<tab, row>> the destination does not accept
  sheetCols,  \* destination: number of columns of the existing sheet
  dest,       \* destination: the rows of the sheet, in sheet order
  pc,         \* per flow: the network call it is waiting for
  loc,        \* per flow: local variables of executeTransfer
  hist,       \* history: calls made to the outside, for stating properties
  storeFault, \* job store: number of progress writes that may still fail
  call        \* the dry-run summary under study: its input and its results

vars == <<job, tokens, tabLen, imgCells, badRows, sheetCols, dest, pc, loc,
          hist, storeFault, call>>

(***************************************************************************)
(* Source and destination data.                                            *)
(***************************************************************************)

(* cell.isImage of the cell at <<row r, column c>> of tab t *)
IsImage(t, r, c) == t = 1 /\ <<r, c>> \in imgCells

(* ids of the destination sheet's columns, in sheet order *)
SheetColumnId(index) == 100 + index

(* provisional smartsheetColumnId the client sent with mapping m *)
ProvisionalColumnId(m) == 900 + m

(***************************************************************************)
(* createTransferJob: the record as stored.                                *)
(***************************************************************************)
NewProgress ==
  [ totalRows |-> 0, processedRows |-> 0, totalImages |-> 0,
    processedImages |-> 0,
    successfulImages |-> Undefined, fallbackImages |-> Undefined,
    failedImages |-> Undefined,
    currentBatch |-> Undefined, totalBatches |-> Undefined,
    errors |-> <<>>, warnings |-> <<>> ]

CreateTransferJob(nMappings, dryRun) ==
  [ status |-> "pending",
    columnMappings |-> [m \in 1..nMappings |-> ProvisionalColumnId(m)],
    progress |-> NewProgress,
    logs |-> <<>>,
    dryRun |-> dryRun ]

InitLoc ==
  [ outcome |-> "none",
    columnMappings |-> <<>>,
    data |-> <<>>,
    errors |-> <<>>,
    totalRows |-> 0, processedRows |-> 0,
    totalImages |-> 0, processedImages |-> 0,
    successfulImages |-> 0, fallbackImages |-> 0, failedImages |-> 0,
    b |-> 0,
    smartsheetRows |-> <<>>,
    imageQueue |-> <<>>,
    result |-> [success |-> 0, failed |-> 0, errors |-> <<>>, result |-> <<>>],
    imgIdx |-> 0,
    imageResults |-> [successful |-> 0, failed |-> 0, fallbacks |-> 0] ]

InitHist ==
  [ inserts |-> <<>>,      \* one entry per POST /sheets/{id}/rows
    sourceReads |-> 0,     \* calls to the source spreadsheet
    destWrites |-> 0,      \* calls that change the destination sheet
    cancels |-> 0,         \* calls of cancelTransfer
    cancelled |-> FALSE,   \* a cancelTransfer call wrote "cancelled"
    rejects |-> 0,         \* executeTransfer calls rejected as not pending
    imageOps |-> {},       \* image queue entries handled, with their row
    imageRuns |-> <<>>,    \* what each processImageQueue run returned
    unreachable |-> FALSE, \* every tab fetch of the source read failed
    storeFailed |-> FALSE ] \* a progress write was failed by the store

(* no dry-run summary is under study *)
NoCall == [op |-> "none"]

(* a stored job, its user, a source and a destination; no flow started *)
InitJob ==
  /\ \E d \in BOOLEAN : job = CreateTransferJob(MaxCols, d)
  /\ tokens \in BOOLEAN
  /\ \E nt \in 1..MaxTabs : tabLen \in [1..nt -> TabLens]
  /\ imgCells \in {s \in SUBSET ImgCands :
                     /\ Cardinality(s) <= MaxImages
                     /\ \A c \in s : c[1] < tabLen[1]}
  /\ badRows \in {s \in SUBSET BadCands :
                    /\ Cardinality(s) <= MaxBadRows
                    /\ \A r \in s : r[1] <= Len(tabLen) /\ r[2] < tabLen[r[1]]}
  /\ sheetCols \in 1..MaxCols
  /\ dest = <<>>
  /\ pc = [p \in Procs |-> "idle"]
  /\ loc = [p \in Procs |-> InitLoc]
  /\ hist = InitHist
  /\ call = NoCall

(* the job store accepts every write *)
Init == InitJob /\ storeFault = 0

(* the job store may fail up to MaxStoreFaults writes of the batch loop *)
InitStore == InitJob /\ storeFault \in 1..MaxStoreFaults


(***************************************************************************)
(* Job store (SQLiteDatabaseManager) and logging.                          *)
(***************************************************************************)

(* addJobLog: re-reads the job and stores its logs with one entry appended *)
AddJobLog(j, message) == [j EXCEPT !.logs = Append(@, message)]

(* updateTransferJobStatus(id, status): SET status = ? *)
UpdateStatus(j, status) == [j EXCEPT !.status = status]

(* updateTransferJobStatus(id, status, progress): SET status = ?, progress = ? *)
UpdateStatusProgress(j, status, progress) ==
  [j EXCEPT !.status = status, !.progress = progress]

GeneralError(message) ==
  [type |-> "general_error", message |-> message, row |-> Undefined]

(* mutation of CatchError: the failure record starts from a fresh progress *)
CatchErrorMutant(j, message) ==
  UpdateStatusProgress(AddJobLog(j, "error: Transfer failed"), "failed",
                       [NewProgress EXCEPT !.errors = <<GeneralError(message)>>])

(* mutation of CatchError: the error is recorded, the status is left as    *)
(* it is                                                                   *)
CatchErrorKeepsStatus(j, message) ==
  [j EXCEPT !.progress.errors = Append(@, GeneralError(message))]

(* the catch block of executeTransfer: re-read the job, append a           *)
(* general_error to its stored progress, log, store status failed          *)
CatchError(j, message) ==
  LET currentJob == j
      updatedProgress ==
        [currentJob.progress EXCEPT !.errors = Append(@, GeneralError(message))]
  IN  UpdateStatusProgress(AddJobLog(currentJob, "error: Transfer failed"),
                           "failed", updatedProgress)

(***************************************************************************)
(* Batching of performActualTransfer: the tab loop and the batch loop,     *)
(* flattened into the list of (tab, offset) pairs in the order the nested  *)
(* loops visit them.                                                       *)
(***************************************************************************)
DataRowCount(len) == IF len > 1 THEN len - 1 ELSE 0

(* mutation of TabBatches: the loop stops before a partial last batch *)
TabBatchesMutant(t, len) ==
  [k \in 1..(DataRowCount(len) \div batchSize) |->
     [tab |-> t, i |-> (k - 1) * batchSize]]

TabBatches(t, len) ==
  [k \in 1..CeilDiv(DataRowCount(len), batchSize) |->
     [tab |-> t, i |-> (k - 1) * batchSize]]

RECURSIVE BatchListFrom(_, _)
BatchListFrom(data, t) ==
  IF t > Len(data) THEN <<>>
  ELSE TabBatches(t, data[t]) \o BatchListFrom(data, t + 1)

BatchList(data) == BatchListFrom(data, 1)

(* mutation of BatchRows: the slice takes one row more than the batch size *)
BatchRowsLong(data, bt) ==
  [k \in 1..(Min2(bt.i + batchSize + 1, DataRowCount(data[bt.tab])) - bt.i) |->
     bt.i + k]

(* dataRows.slice(i, i + batchSize): the source row numbers of the batch   *)
(* (dataRows[k] is row k + 1 of the fetched tab)                           *)
BatchRows(data, bt) ==
  [k \in 1..(Min2(bt.i + batchSize, DataRowCount(data[bt.tab])) - bt.i) |->
     bt.i + k]

(* let totalRows / totalImages: counted over the fetched data; images are  *)
(* counted over every row of the tab, the header row included              *)
RECURSIVE SumRows(_, _)
SumRows(data, t) ==
  IF t > Len(data) THEN 0 ELSE DataRowCount(data[t]) + SumRows(data, t + 1)

CountImages(data) ==
  Cardinality({c \in imgCells : 1 <= Len(data) /\ c[1] < data[1]})

(* number of cells of source row r of tab t with isImage *)
RowImages(t, r) == Cardinality({c \in 1..MaxCols : IsImage(t, r, c)})

(***************************************************************************)
(* convertRowToSmartsheet and the conversion loop of one batch.            *)
(* convertRowToSmartsheet has no path that throws for a row produced by    *)
(* processSheetData (its body is guarded by its own try/catch), so every   *)
(* row of the batch is pushed to smartsheetRows.                           *)
(***************************************************************************)
ConvertRowToSmartsheet(t, r, columnMappings) ==
  [m \in 1..Len(columnMappings) |->
     [columnId |-> columnMappings[m],
      value |-> IF IsImage(t, r, m) THEN "Loading image..." ELSE "text"]]

ConvertBatch(data, bt, columnMappings) ==
  LET rows == BatchRows(data, bt)
      nm == Len(columnMappings)
      cellAt(n) == [rowIndex |-> (n - 1) \div nm, m |-> ((n - 1) % nm) + 1]
      all == [n \in 1..(Len(rows) * nm) |->
                [rowIndex |-> cellAt(n).rowIndex,
                 columnId |-> columnMappings[cellAt(n).m],
                 imageUrl |-> <<bt.tab, rows[cellAt(n).rowIndex + 1], cellAt(n).m>>]]
      isImg(e) == IsImage(e.imageUrl[1], e.imageUrl[2], e.imageUrl[3])
      RECURSIVE imgs(_)
      imgs(k) == IF k = 0 THEN 0 ELSE imgs(k - 1) + RowImages(bt.tab, rows[k])
  IN  [ smartsheetRows |->
          [k \in 1..Len(rows) |->
             [src |-> <<bt.tab, rows[k]>>,
              cells |-> ConvertRowToSmartsheet(bt.tab, rows[k], columnMappings)]],
        imageQueue |-> SelectSeq(all, isImg),
        images |-> imgs(Len(rows)) ]


(***************************************************************************)
(* The destination sheet (external).  POST /sheets/{id}/rows is            *)
(* all-or-nothing per call: a call holding a row the sheet does not        *)
(* accept fails as a whole; otherwise it answers with the created rows in  *)
(* the order they were sent.                                               *)
(***************************************************************************)
CallAccepted(rows) == \A k \in 1..Len(rows) : rows[k].src \notin badRows

NewRowId(d, k) == 1000 + Len(d) + k

AcceptRows(d, rows) ==
  d \o [k \in 1..Len(rows) |->
          [id |-> NewRowId(d, k),
           src |-> rows[k].src,
           cells |-> [m \in 1..Len(rows[k].cells) |-> rows[k].cells[m].value]]]

(* the body of the response: the created rows, in submission order *)
ResponseResult(d, rows) == [k \in 1..Len(rows) |-> [id |-> NewRowId(d, k)]]

(* addRowsToSheet: what it returns when the POST succeeded with `result` *)
AddRowsSuccess(rows, result) ==
  [ success |-> Len(result), failed |-> 0, errors |-> <<>>,
    result |-> <<>> \o result ]

(* mutation of AddRowsFailure: the rows of a failed call are counted as    *)
(* created                                                                 *)
AddRowsFailureCounted(rows, message) ==
  [ success |-> Len(rows), failed |-> Len(rows),
    errors |-> [j \in 1..Len(rows) |-> [row |-> j - 1, error |-> message]],
    result |-> <<>> ]

(* mutation of AddRowsFailure: one error for the call, not one per row *)
AddRowsFailureMutant(rows, message) ==
  [ success |-> 0, failed |-> Len(rows),
    errors |-> <<[row |-> 0, error |-> message]>>,
    result |-> <<>> ]

(* addRowsToSheet: what it returns when the POST failed: the failure of    *)
(* the call is caught and every row of the call is reported with the       *)
(* call's error message                                                    *)
AddRowsFailure(rows, message) ==
  [ success |-> 0, failed |-> Len(rows),
    errors |-> [j \in 1..Len(rows) |-> [row |-> j - 1, error |-> message]],
    result |-> <<>> ]

(* errors.push(...result.errors.map(...)) *)
RowErrors(errs) ==
  [j \in 1..Len(errs) |->
     [type |-> "row_insert_failed", message |-> errs[j].error, row |-> errs[j].row]]

(* mutation of PushErrors: an error equal to a recorded one is dropped *)
PushErrorsMutant(errors, new) ==
  errors \o SelectSeq(new, LAMBDA e : \A i \in 1..Len(errors) : errors[i] # e)

(* errors.push(...new): the new entries are appended, whatever they are *)
PushErrors(errors, new) == errors \o new

(* writes to one cell of the row with the given id *)
SetCell(d, rowId, columnId, v) ==
  [k \in 1..Len(d) |->
     IF d[k].id = rowId
     THEN [d[k] EXCEPT !.cells[columnId - SheetColumnId(0)] = v]
     ELSE d[k]]

(***************************************************************************)
(* performActualTransfer: the progress record it persists.                 *)
(***************************************************************************)
ProgressOf(l, currentBatch, totalBatches) ==
  [ totalRows |-> l.totalRows, processedRows |-> l.processedRows,
    totalImages |-> l.totalImages, processedImages |-> l.processedImages,
    successfulImages |-> l.successfulImages,
    fallbackImages |-> l.fallbackImages,
    failedImages |-> l.failedImages,
    currentBatch |-> currentBatch, totalBatches |-> totalBatches,
    errors |-> l.errors, warnings |-> <<>> ]

(* The loops of performActualTransfer from the point where batch l.b is    *)
(* finished: either the next batch is converted and its insert call is     *)
(* sent, or the loops end, performActualTransfer returns and               *)
(* executeTransfer stores status completed.                                *)
AdvanceLoop(p, j, l, h) ==
  LET batches == BatchList(l.data)
  IN  IF l.b < Len(batches)
      THEN LET bt == batches[l.b + 1]
               conv == ConvertBatch(l.data, bt, l.columnMappings)
           IN  /\ job' = IF bt.i = 0 THEN AddJobLog(j, "info: Processing tab") ELSE j
               /\ loc' = [loc EXCEPT ![p] =
                           [l EXCEPT !.b = l.b + 1,
                                     !.smartsheetRows = conv.smartsheetRows,
                                     !.imageQueue = conv.imageQueue,
                                     !.processedImages = @ + conv.images]]
               /\ pc' = [pc EXCEPT ![p] = "addRows"]
               /\ hist' = [h EXCEPT !.inserts =
                            Append(@, [b |-> l.b + 1, state |-> "inflight",
                                       cancelledBefore |-> h.cancelled])]
      ELSE /\ job' = UpdateStatus(AddJobLog(j, "success: Transfer completed"),
                                  "completed")
           /\ loc' = [loc EXCEPT ![p] = [l EXCEPT !.outcome = "returned"]]
           /\ pc' = [pc EXCEPT ![p] = "done"]
           /\ hist' = h

(* The end of one iteration of the batch loop: collect the row errors of   *)
(* the insert result, persist the progress with status running, go on.     *)
(* The progress write is awaited outside any try block of the loop: when   *)
(* the store fails it, the rejection leaves performActualTransfer and is   *)
(* caught by executeTransfer, whose catch block stores status failed (or   *)
(* fails too, when the store fails that write as well).                    *)
FinishBatch(p, j, l, h) ==
  LET bt == BatchList(l.data)[l.b]
      l1 == [l EXCEPT !.errors = PushErrors(@, RowErrors(l.result.errors))]
      progress == ProgressOf(l1, (bt.i \div batchSize) + 1,
                             CeilDiv(DataRowCount(l.data[bt.tab]), batchSize))
  IN  \/ /\ AdvanceLoop(p, UpdateStatusProgress(j, "running", progress), l1, h)
         /\ UNCHANGED storeFault
      \/ /\ storeFault > 0
         /\ \E caught \in {c \in BOOLEAN : c \/ storeFault > 1} :
              /\ job' = IF caught THEN CatchError(j, "Store write failed") ELSE j
              /\ storeFault' = storeFault - (IF caught THEN 1 ELSE 2)
         /\ loc' = [loc EXCEPT ![p] = [l1 EXCEPT !.outcome = "threw"]]
         /\ pc' = [pc EXCEPT ![p] = "done"]
         /\ hist' = [h EXCEPT !.storeFailed = TRUE]

(* executeTransfer throws: the catch block has run *)
Throw(p, message) ==
  /\ job' = CatchError(job, message)
  /\ loc' = [loc EXCEPT ![p].outcome = "threw"]
  /\ pc' = [pc EXCEPT ![p] = "done"]


(***************************************************************************)
(* executeTransfer                                                         *)
(***************************************************************************)

(* mutation of IsPending: a running job passes the check too *)
IsPendingMutant(j) == j.status \in {"pending", "running"}

(* the pending check: the call goes on only for a pending job *)
IsPending(j) == j.status = "pending"

(* Invocation, up to the first token validation call.  The job and the     *)
(* user are read; a non-pending job is rejected; missing tokens store      *)
(* status failed and throw; otherwise status running is stored.            *)
(* (Flows are interchangeable, so they are invoked in the order of their   *)
(* numbers.)                                                               *)
ExecuteTransfer(p) ==
  /\ pc[p] = "idle"
  /\ \A q \in Procs : q < p => pc[q] # "idle"
  /\ IF ~IsPending(job)
     THEN /\ loc' = [loc EXCEPT ![p].outcome = "rejected"]
          /\ pc' = [pc EXCEPT ![p] = "done"]
          /\ hist' = [hist EXCEPT !.rejects = @ + 1]
          /\ UNCHANGED job
     ELSE IF ~tokens
     THEN /\ job' = UpdateStatus(job, "failed")
          /\ loc' = [loc EXCEPT ![p].outcome = "threw"]
          /\ pc' = [pc EXCEPT ![p] = "done"]
          /\ UNCHANGED hist
     ELSE /\ job' = UpdateStatus(job, "running")
          /\ pc' = [pc EXCEPT ![p] = "validateTokens"]
          /\ UNCHANGED <<loc, hist>>
  /\ UNCHANGED <<tokens, tabLen, imgCells, badRows, sheetCols, storeFault, call, dest>>

(* validateAndRefreshTokens (both services) returns or throws; on return   *)
(* the dry run or the transfer starts and sends its source read.           *)
ValidateTokens(p) ==
  /\ pc[p] = "validateTokens"
  /\ \E ok \in BOOLEAN :
       IF ok
       THEN /\ job' = IF job.dryRun THEN job
                      ELSE AddJobLog(job, "info: Transfer started")
            /\ pc' = [pc EXCEPT ![p] = IF job.dryRun THEN "dryRunData"
                                       ELSE "getSpreadsheetData"]
            /\ hist' = [hist EXCEPT !.sourceReads = @ + 1]
            /\ UNCHANGED loc
       ELSE /\ Throw(p, "Token refresh failed")
            /\ UNCHANGED hist
  /\ UNCHANGED <<tokens, tabLen, imgCells, badRows, sheetCols, storeFault, call, dest>>

(* what getSpreadsheetData returns: the rows of every tab; the fetch of a  *)
(* tab that fails is caught inside the tab loop and the tab is returned    *)
(* with no rows                                                            *)
FetchedData(fetch) ==
  [t \in 1..Len(tabLen) |-> IF fetch = "tabsFailed" THEN 0 ELSE tabLen[t]]

(* the ways a source read can end: every tab fetched, the fetch of every   *)
(* tab failed (source unreachable), or the client could not be created     *)
FetchOutcomes == {"fetched", "tabsFailed", "noClient"}

(* getSpreadsheetData returns the tabs or throws; getSpreadsheetInfo       *)
(* follows and never throws; then the destination sheet is requested.      *)
GetSpreadsheetData(p) ==
  /\ pc[p] = "getSpreadsheetData"
  /\ \E fetch \in FetchOutcomes :
       IF fetch # "noClient"
       THEN /\ loc' = [loc EXCEPT ![p].data = FetchedData(fetch)]
            /\ pc' = [pc EXCEPT ![p] = "getSheetDetails"]
            /\ hist' = [hist EXCEPT !.unreachable = (fetch = "tabsFailed")]
            /\ UNCHANGED job
       ELSE Throw(p, "Failed to get spreadsheet data") /\ UNCHANGED hist
  /\ UNCHANGED <<tokens, tabLen, imgCells, badRows, sheetCols, storeFault, call, dest>>

(* actualSheet.columns of a sheet with n columns: the ids in sheet order *)
SheetColumns(n) == [index \in 1..n |-> SheetColumnId(index)]

(* mutation of FixColumnMappings: the mappings keep the ids they came with *)
FixColumnMappingsKept(columnMappings, columns) == columnMappings

(* mutation of FixColumnMappings: a mapping that already holds the id of   *)
(* the column at its index is moved to the first column                    *)
FixColumnMappingsMoved(columnMappings, columns) ==
  [m \in 1..Len(columnMappings) |->
     IF m \notin DOMAIN columns THEN Undefined
     ELSE IF columnMappings[m] = columns[m] THEN columns[1]
     ELSE columns[m]]

(* job.columnMappings.map(...): every mapping takes the id of the actual   *)
(* column at its index (a mapping is represented by its                    *)
(* smartsheetColumnId, the only field the map changes); a mapping without  *)
(* such a column throws, which is MappingFails                             *)
FixColumnMappings(columnMappings, columns) ==
  [m \in 1..Len(columnMappings) |->
     IF m \in DOMAIN columns THEN columns[m] ELSE Undefined]

(* mutation of MappingFails: the column count is checked off by one *)
MappingFailsMutant(columnMappings, nColumns) ==
  \E m \in 1..Len(columnMappings) : m > nColumns + 1

MappingFails(columnMappings, nColumns) ==
  \E m \in 1..Len(columnMappings) : m > nColumns

(* getSheetDetails returns or throws.  On return: reconcile the column     *)
(* mappings, count rows and images, persist the initial progress with      *)
(* status running, and enter the loops.                                    *)
GetSheetDetails(p) ==
  /\ pc[p] = "getSheetDetails"
  /\ \E ok \in BOOLEAN :
       IF ~ok
       THEN Throw(p, "Failed to get sheet details") /\ UNCHANGED hist
       ELSE IF MappingFails(job.columnMappings, sheetCols)
       THEN Throw(p, "Cannot map columns to existing sheet") /\ UNCHANGED hist
       ELSE LET l == [loc[p] EXCEPT
                        !.columnMappings =
                           FixColumnMappings(job.columnMappings,
                                             SheetColumns(sheetCols)),
                        !.totalRows = SumRows(loc[p].data, 1),
                        !.totalImages = CountImages(loc[p].data)]
                j1 == AddJobLog(job, "info: Transfer initialized")
                j2 == UpdateStatusProgress(j1, "running",
                                           ProgressOf(l, Undefined, Undefined))
            IN  AdvanceLoop(p, j2, l, hist)
  /\ UNCHANGED <<tokens, tabLen, imgCells, badRows, sheetCols, storeFault, call, dest>>

(* mutation of StartsImageQueue: the queue is started whatever the insert  *)
(* returned                                                                *)
StartsImageQueueMutant(imageQueue, result) == Len(imageQueue) > 0

(* if (imageQueue.length > 0 && result.success > 0) *)
StartsImageQueue(imageQueue, result) ==
  Len(imageQueue) > 0 /\ result.success > 0

(* The insert call of the current batch returns.  The destination either   *)
(* created all rows of the call or rejected the call.  processedRows is    *)
(* increased; with queued images and at least one created row the image    *)
(* queue is started, otherwise the batch is finished.                      *)
AddRowsToSheet(p) ==
  /\ pc[p] = "addRows"
  /\ LET rows == loc[p].smartsheetRows
         n == Len(hist.inserts)
         ok == CallAccepted(rows)
     IN    /\ LET res == IF ok
                         THEN AddRowsSuccess(rows, ResponseResult(dest, rows))
                         ELSE AddRowsFailure(rows, "Request failed")
                  d == IF ok THEN AcceptRows(dest, rows) ELSE dest
                  l == [loc[p] EXCEPT !.result = res,
                                      !.processedRows = @ + res.success,
                                      !.imgIdx = 1,
                                      !.imageResults =
                                         [successful |-> 0, failed |-> 0,
                                          fallbacks |-> 0]]
                  h == [hist EXCEPT
                          !.inserts[n].state = IF ok THEN "ok" ELSE "rejected",
                          !.destWrites = IF ok THEN @ + 1 ELSE @]
                  j == AddJobLog(job, "success: Batch completed")
              IN  /\ dest' = d
                  /\ IF StartsImageQueue(l.imageQueue, res)
                     THEN /\ job' = j
                          /\ loc' = [loc EXCEPT ![p] = l]
                          /\ pc' = [pc EXCEPT ![p] = "images"]
                          /\ hist' = h
                          /\ UNCHANGED storeFault
                     ELSE FinishBatch(p, j, l, h)
  /\ UNCHANGED <<tokens, tabLen, imgCells, badRows, sheetCols, call>>


(***************************************************************************)
(* processImageQueue                                                       *)
(***************************************************************************)

(* an absent element of insertedRows (it fails `insertedRow.id`) *)
NoRow == [id |-> 0]

(* mutation of InsertedRow: the position is taken one too far *)
InsertedRowMutant(insertedRows, rowIndex) ==
  IF rowIndex + 2 \in DOMAIN insertedRows
  THEN insertedRows[rowIndex + 2]
  ELSE NoRow

(* insertedRows[imageItem.rowIndex] *)
InsertedRow(insertedRows, rowIndex) ==
  IF rowIndex + 1 \in DOMAIN insertedRows
  THEN insertedRows[rowIndex + 1]
  ELSE NoRow

(* addImageToCell: POST .../rows/{rowId}/columns/{columnId}/cellimages *)
AddImageToCell(d, rowId, columnId) == SetCell(d, rowId, columnId, "image")

(* updateCellWithUrl: rewrites the cell as a hyperlink to the source URL *)
UpdateCellWithUrl(d, rowId, columnId, url) == SetCell(d, rowId, columnId, "link")

(* mutation of CountOutcome: a fallback falls through to failed++ *)
CountOutcomeMutant(r, outcome) ==
  [ successful |-> r.successful + (IF outcome = "successful" THEN 1 ELSE 0),
    fallbacks |-> r.fallbacks + (IF outcome = "fallback" THEN 1 ELSE 0),
    failed |-> r.failed + (IF outcome \in {"fallback", "failed"} THEN 1 ELSE 0) ]

(* the counters of one processImageQueue run after one more outcome *)
CountOutcome(r, outcome) ==
  [ successful |-> r.successful + (IF outcome = "successful" THEN 1 ELSE 0),
    fallbacks |-> r.fallbacks + (IF outcome = "fallback" THEN 1 ELSE 0),
    failed |-> r.failed + (IF outcome = "failed" THEN 1 ELSE 0) ]

(* mutation of AfterImageQueue: failed images are left out of the job's    *)
(* image statistics                                                        *)
AfterImageQueueMutant(j, l) ==
  LET r == l.imageResults
  IN  [ job |-> AddJobLog(j, "info: Image processing completed"),
        loc |-> [l EXCEPT !.successfulImages = @ + r.successful,
                          !.fallbackImages = @ + r.fallbacks] ]

(* what performActualTransfer does with the value processImageQueue        *)
(* returned: add it to the job's image statistics and log it               *)
AfterImageQueue(j, l) ==
  LET r == l.imageResults
      any == r.successful > 0 \/ r.fallbacks > 0 \/ r.failed > 0
      j1 == IF any THEN AddJobLog(j, "info: Image processing completed") ELSE j
      j2 == IF any /\ r.fallbacks > 0
            THEN AddJobLog(j1, "warn: images converted to links") ELSE j1
      j3 == IF any /\ r.failed > 0
            THEN AddJobLog(j2, "error: images could not be processed") ELSE j2
  IN  [ job |-> j3,
        loc |-> [l EXCEPT !.successfulImages = @ + r.successful,
                          !.fallbackImages = @ + r.fallbacks,
                          !.failedImages = @ + r.failed] ]

(* One entry of the image queue: the row is looked up by the entry's       *)
(* rowIndex; without a row the entry is counted failed.  Otherwise the     *)
(* image is downloaded (dl) and attached (at); if either fails the cell    *)
(* is rewritten as a link (fb); if that fails too the entry is counted     *)
(* failed.  After the last entry the batch is finished.                    *)
ProcessImageQueue(p) ==
  /\ pc[p] = "images"
  /\ LET l == loc[p]
         item == l.imageQueue[l.imgIdx]
         insertedRow == InsertedRow(l.result.result, item.rowIndex)
     IN  \E dl \in BOOLEAN, at \in BOOLEAN, fb \in BOOLEAN :
           LET outcome == IF insertedRow.id = 0 THEN "failed"
                          ELSE IF dl /\ at THEN "successful"
                          ELSE IF fb THEN "fallback"
                          ELSE "failed"
               d == IF insertedRow.id = 0 THEN dest
                    ELSE IF outcome = "successful"
                    THEN AddImageToCell(dest, insertedRow.id, item.columnId)
                    ELSE IF outcome = "fallback"
                    THEN UpdateCellWithUrl(dest, insertedRow.id, item.columnId,
                                           item.imageUrl)
                    ELSE dest
               l1 == [l EXCEPT !.imageResults = CountOutcome(@, outcome),
                               !.imgIdx = @ + 1]
               h == [hist EXCEPT
                       !.imageOps = @ \cup
                          {[b |-> l.b, url |-> item.imageUrl,
                            rowId |-> IF insertedRow.id = 0 THEN 0
                                      ELSE insertedRow.id,
                            outcome |-> outcome]},
                       !.destWrites = IF d # dest THEN @ + 1 ELSE @]
           IN  /\ dest' = d
               /\ IF l1.imgIdx <= Len(l.imageQueue)
                  THEN /\ loc' = [loc EXCEPT ![p] = l1]
                       /\ hist' = h
                       /\ UNCHANGED <<job, pc, storeFault>>
                  ELSE LET a == AfterImageQueue(job, l1)
                           h1 == [h EXCEPT !.imageRuns =
                                    Append(@, [b |-> l.b,
                                               queued |-> Len(l.imageQueue),
                                               returned |-> l1.imageResults])]
                       IN  FinishBatch(p, a.job, a.loc, h1)
  /\ UNCHANGED <<tokens, tabLen, imgCells, badRows, sheetCols, call>>

(***************************************************************************)
(* performDryRun                                                           *)
(***************************************************************************)
DryRunData(p) ==
  /\ pc[p] = "dryRunData"
  /\ \E fetch \in FetchOutcomes :
       IF fetch # "noClient"
       THEN /\ loc' = [loc EXCEPT ![p].data = FetchedData(fetch)]
            /\ pc' = [pc EXCEPT ![p] = "dryRunValidate"]
            /\ hist' = [hist EXCEPT !.unreachable = (fetch = "tabsFailed")]
            /\ UNCHANGED job
       ELSE Throw(p, "Failed to get spreadsheet data") /\ UNCHANGED hist
  /\ UNCHANGED <<tokens, tabLen, imgCells, badRows, sheetCols, storeFault, call, dest>>

ImageAccessDenied ==
  [type |-> "image_access_denied", message |-> "Image not accessible",
   row |-> Undefined]

(* images.slice(0, Math.min(50, images.length)).length *)
ImageValidationSample(nImages) == Min2(50, nImages)

(* Math.round(a / b) for a >= 0, b > 0 *)
Round(a, b) == (2 * a + b) \div (2 * b)

(* const estimatedInaccessibleImages: computed by performDryRun, and not   *)
(* read again                                                              *)
EstimatedInaccessibleImages(inaccessibleCount, sample, nImages) ==
  IF nImages > 50 THEN Round(inaccessibleCount * nImages, sample)
  ELSE inaccessibleCount

(* mutation of DryRunProgress: the rows are not marked processed *)
DryRunProgressMutant(totalRows, totalImages, inaccessibleCount) ==
  [NewProgress EXCEPT
     !.totalRows = totalRows, !.processedRows = 0,
     !.totalImages = totalImages, !.processedImages = totalImages,
     !.errors = [x \in 1..inaccessibleCount |-> ImageAccessDenied]]

(* the progress record performDryRun stores: one image_access_denied error *)
(* per inaccessible image of the validated sample                          *)
DryRunProgress(totalRows, totalImages, inaccessibleCount) ==
  [NewProgress EXCEPT
     !.totalRows = totalRows, !.processedRows = totalRows,
     !.totalImages = totalImages, !.processedImages = totalImages,
     !.errors = [x \in 1..inaccessibleCount |-> ImageAccessDenied]]

(* batchValidateImages returns (it never throws): k images of the sample   *)
(* are inaccessible.  The progress is stored, performDryRun returns and    *)
(* executeTransfer stores status completed.                                *)
DryRunValidate(p) ==
  /\ pc[p] = "dryRunValidate"
  /\ LET totalRows == SumRows(loc[p].data, 1)
         totalImages == CountImages(loc[p].data)
         sample == ImageValidationSample(totalImages)
     IN  \E k \in 0..sample :
           LET progress == DryRunProgress(totalRows, totalImages, k)
               j1 == UpdateStatusProgress(job, "running", progress)
               j2 == AddJobLog(j1, "success: Transfer completed")
           IN  /\ job' = UpdateStatus(j2, "completed")
               /\ loc' = [loc EXCEPT ![p].outcome = "returned"]
               /\ pc' = [pc EXCEPT ![p] = "done"]
  /\ UNCHANGED <<tokens, tabLen, imgCells, badRows, sheetCols, storeFault, call, dest, hist>>

(***************************************************************************)
(* The dry-run summary, studied on its own for sources with up to          *)
(* MaxDryRunImages image cells: performDryRun from the point where the     *)
(* rows and images of the fetched data have been counted, then             *)
(* getDryRunResult on the stored job.                                      *)
(***************************************************************************)
NoSummary ==
  [totalRows |-> 0, totalImages |-> 0, inaccessibleImages |-> 0,
   estimatedTime |-> 0]

(* getDryRunResult: the summary is read off the stored progress *)
GetDryRunResult(j) ==
  [ totalRows |-> j.progress.totalRows,
    totalImages |-> j.progress.totalImages,
    inaccessibleImages |->
      Len(SelectSeq(j.progress.errors,
                    LAMBDA e : e.type = "image_access_denied")),
    estimatedTime |-> CeilDiv(j.progress.totalRows + j.progress.totalImages, 100) ]

InitDryRun ==
  /\ job = UpdateStatus(CreateTransferJob(MaxCols, TRUE), "running")
  /\ tokens = TRUE
  /\ tabLen = <<2>>
  /\ imgCells = {}
  /\ badRows = {}
  /\ sheetCols = MaxCols
  /\ dest = <<>>
  /\ pc = [p \in Procs |-> "idle"]
  /\ loc = [p \in Procs |-> InitLoc]
  /\ hist = InitHist
  /\ storeFault = 0
  /\ \E n \in 0..MaxDryRunImages, r \in 0..1 :
       call = [op |-> "performDryRun", totalRows |-> r, images |-> n,
               validated |-> 0, inaccessible |-> 0, estimate |-> 0,
               summary |-> NoSummary]

(* performDryRun, lines 206-234: validate the sample, of which k images    *)
(* turn out inaccessible, and store the progress; executeTransfer then     *)
(* stores status completed                                                 *)
PerformDryRun ==
  /\ call.op = "performDryRun"
  /\ LET sample == ImageValidationSample(call.images)
     IN  \E k \in 0..sample :
           LET progress == DryRunProgress(call.totalRows, call.images, k)
               j1 == UpdateStatusProgress(job, "running", progress)
               j2 == AddJobLog(j1, "success: Transfer completed")
           IN  /\ job' = UpdateStatus(j2, "completed")
               /\ call' = [call EXCEPT
                             !.op = "getDryRunResult",
                             !.validated = sample,
                             !.inaccessible = k,
                             !.estimate =
                                EstimatedInaccessibleImages(k, sample, call.images)]
  /\ UNCHANGED <<tokens, tabLen, imgCells, badRows, sheetCols, storeFault, dest,
                 pc, loc, hist>>

GetDryRunResultCall ==
  /\ call.op = "getDryRunResult"
  /\ job.dryRun
  /\ call' = [call EXCEPT !.op = "returned", !.summary = GetDryRunResult(job)]
  /\ UNCHANGED <<job, tokens, tabLen, imgCells, badRows, sheetCols, storeFault,
                 dest, pc, loc, hist>>

NextDryRun == PerformDryRun \/ GetDryRunResultCall

SpecDryRun == InitDryRun /\ [][NextDryRun]_vars

(***************************************************************************)
(* cancelTransfer                                                          *)
(***************************************************************************)
CancelTransfer ==
  /\ hist.cancels < MaxCancels
  /\ job' = IF job.status = "running" THEN UpdateStatus(job, "cancelled") ELSE job
  /\ hist' = [hist EXCEPT !.cancels = @ + 1,
                          !.cancelled = @ \/ job.status = "running"]
  /\ UNCHANGED <<tokens, tabLen, imgCells, badRows, sheetCols, storeFault, call, dest, pc, loc>>

Next ==
  \/ \E p \in Procs : ExecuteTransfer(p)
  \/ \E p \in Procs : ValidateTokens(p)
  \/ \E p \in Procs : GetSpreadsheetData(p)
  \/ \E p \in Procs : GetSheetDetails(p)
  \/ \E p \in Procs : AddRowsToSheet(p)
  \/ \E p \in Procs : ProcessImageQueue(p)
  \/ \E p \in Procs : DryRunData(p)
  \/ \E p \in Procs : DryRunValidate(p)
  \/ CancelTransfer

Spec == Init /\ [][Next]_vars

(* the same program with a job store that may fail progress writes *)
SpecStore == InitStore /\ [][Next]_vars


(***************************************************************************)
(* Properties.                                                             *)
(***************************************************************************)
Range(f) == {f[x] : x \in DOMAIN f}

DestRowById(d, id) == CHOOSE r \in Range(d) : r.id = id

DestSources(d) == {d[k].src : k \in 1..Len(d)}

(* the source rows <<tab, row>> of the b-th batch of the source, computed  *)
(* from the source itself: tabs in order, 50 data rows at a time           *)
SourceBatchCount(t) ==
  IF tabLen[t] > 1 THEN ((tabLen[t] - 1) + (batchSize - 1)) \div batchSize ELSE 0

RECURSIVE SourceBatchesBefore(_)
SourceBatchesBefore(t) ==
  IF t <= 1 THEN 0 ELSE SourceBatchesBefore(t - 1) + SourceBatchCount(t - 1)

SourceBatchTotal == SourceBatchesBefore(Len(tabLen) + 1)

SourceBatch(b) ==
  LET t == CHOOSE u \in 1..Len(tabLen) :
             SourceBatchesBefore(u) < b /\ b <= SourceBatchesBefore(u + 1)
      k == b - SourceBatchesBefore(t)
  IN  {<<t, r>> : r \in ((k - 1) * batchSize + 1)..Min2(k * batchSize, tabLen[t] - 1)}

StatusSteps ==
  { <<"pending", "running">>, <<"running", "completed">>,
    <<"running", "failed">>, <<"running", "cancelled">> }

(* C1: the persisted status changes only along pending->running,           *)
(* running->completed, running->failed and running->cancelled; terminal    *)
(* statuses are never left and none is entered directly from pending.      *)
C1_StatusTransitions ==
  [][job'.status # job.status => <<job.status, job'.status>> \in StatusSteps]_vars

(* C2: once cancelTransfer has cancelled a running job, no further batch   *)
(* is submitted to the destination (only the one in flight finishes) and   *)
(* the status cancelled is not overwritten by running or completed.        *)
C2_CancelEffective ==
  [][ /\ hist.cancelled => Len(hist'.inserts) = Len(hist.inserts)
      /\ job.status = "cancelled" => job'.status \notin {"running", "completed"} ]_vars

(* C3: executeTransfer on a job that is not pending is rejected with an    *)
(* error; the job record is unchanged, the source is not read and the      *)
(* destination is not written.                                             *)
C3_RejectNonPending ==
  [][\A p \in Procs :
       (pc[p] = "idle" /\ pc'[p] # "idle" /\ job.status # "pending")
       => /\ loc'[p].outcome = "rejected"
          /\ pc'[p] = "done"
          /\ job' = job
          /\ dest' = dest
          /\ hist'.sourceReads = hist.sourceReads
          /\ hist'.destWrites = hist.destWrites
          /\ hist'.inserts = hist.inserts]_vars

C3_Witness ==
  \E p \in Procs : loc[p].outcome = "rejected" /\ job.status = "completed"


ExecutionOver ==
  \E p \in Procs : pc[p] = "done" /\ loc[p].outcome \in {"returned", "threw"}

ColumnMismatch == sheetCols < Len(job.columnMappings)

NoRowWritten == Len(hist.inserts) = 0 /\ dest = <<>>

(* C4 as stated: with fewer destination columns than mappings, every       *)
(* execution ends with the job failed and no row insert call made.         *)
C4_MismatchAlwaysFails ==
  ColumnMismatch => NoRowWritten /\ (ExecutionOver => job.status = "failed")

(* C4 amended: with fewer destination columns than mappings no execution   *)
(* makes a row insert call; the execution of a live (not dry-run) job      *)
(* ends with the job failed, a dry-run job is not checked against the      *)
(* destination schema and ends failed or completed.                        *)
C4_MismatchAborts ==
  ColumnMismatch =>
    /\ NoRowWritten
    /\ ExecutionOver /\ ~job.dryRun => job.status = "failed"
    /\ ExecutionOver /\ job.dryRun => job.status \in {"failed", "completed"}

C4_Witness ==
  /\ ColumnMismatch /\ ~job.dryRun /\ job.status = "failed"
  /\ \E i \in 1..Len(job.progress.errors) :
       job.progress.errors[i].message = "Cannot map columns to existing sheet"

(* C5: a job whose persisted status is failed carries at least one         *)
(* general_error in progress.errors.                                       *)
C5_FailedHasGeneralError ==
  job.status = "failed" =>
    \E i \in 1..Len(job.progress.errors) :
      job.progress.errors[i].type = "general_error"

AllBatchesAttempted ==
  /\ Len(hist.inserts) = SourceBatchTotal
  /\ \A n \in 1..Len(hist.inserts) :
       hist.inserts[n].b = n /\ hist.inserts[n].state \in {"ok", "rejected"}

AllFetchedBatchesAttempted ==
  IF hist.unreachable THEN Len(hist.inserts) = 0 ELSE AllBatchesAttempted

C7_ImageOutcomesAddUp ==
  /\ \A n \in 1..Len(hist.imageRuns) :
       LET run == hist.imageRuns[n]
           ops == {o \in hist.imageOps : o.b = run.b}
       IN  /\ run.returned.successful + run.returned.fallbacks
                + run.returned.failed = run.queued
           /\ Cardinality(ops) = run.queued
           /\ Cardinality({o.url : o \in ops}) = run.queued
           /\ Cardinality({o \in ops : o.outcome = "successful"})
                = run.returned.successful
           /\ Cardinality({o \in ops : o.outcome = "fallback"})
                = run.returned.fallbacks
           /\ Cardinality({o \in ops : o.outcome = "failed"})
                = run.returned.failed
  /\ \A p \in Procs :
       pc[p] = "images" =>
         loc[p].imageResults.successful + loc[p].imageResults.fallbacks
           + loc[p].imageResults.failed = loc[p].imgIdx - 1

C7_Witness ==
  \E n \in 1..Len(hist.imageRuns) :
    /\ hist.imageRuns[n].queued >= 1
    /\ hist.imageRuns[n].returned.fallbacks >= 1
    /\ \E m \in 1..Len(hist.imageRuns) : hist.imageRuns[m].returned.failed >= 1

(* C8: the row identifier at position N of the result of addRowsToSheet    *)
(* is the identifier of the destination row created from the N-th row      *)
(* submitted, and every image is applied to the row found at the position  *)
(* of its source row in the batch.                                         *)
C8_OrderPreserved ==
  /\ [][\A p \in Procs :
          (pc[p] = "addRows" /\ loc'[p].result # loc[p].result)
          => \A k \in 1..Len(loc[p].smartsheetRows) :
               loc'[p].result.success > 0
               => /\ k \in DOMAIN loc'[p].result.result
                  /\ DestRowById(dest', loc'[p].result.result[k].id).src
                       = loc[p].smartsheetRows[k].src]_vars
  /\ [](\A o \in hist.imageOps :
          /\ o.rowId # 0
          /\ DestRowById(dest, o.rowId).src = <<o.url[1], o.url[2]>>)

C8_Witness ==
  \E o \in hist.imageOps :
    /\ o.url[2] = batchSize + 1
    /\ o.outcome = "successful"
    /\ Len(dest) > batchSize

ExpectedRowErrors(n, message) ==
  [j \in 1..n |-> [type |-> "row_insert_failed", message |-> message, row |-> j - 1]]

(* C9: when the destination rejects a whole batch, one row_insert_failed   *)
(* error with the batch-level message is recorded per row of the batch,    *)
(* processedRows is not increased, the batch is not submitted again and    *)
(* the execution goes on with the next batch (or completes after the       *)
(* last).                                                                  *)
C9_BatchFailure ==
  /\ [][\A p \in Procs :
          LET n == Len(hist.inserts)
          IN  ( /\ pc[p] = "addRows"
                /\ hist.inserts[n].state = "inflight"
                /\ hist'.inserts[n].state = "rejected" )
              => /\ loc'[p].errors =
                      loc[p].errors \o
                        ExpectedRowErrors(Cardinality(SourceBatch(hist.inserts[n].b)),
                                          "Request failed")
                 /\ job'.progress.errors = loc'[p].errors
                 /\ loc'[p].processedRows = loc[p].processedRows
                 /\ job'.progress.processedRows = loc[p].processedRows
                 /\ dest' = dest
                 /\ IF n < SourceBatchTotal
                    THEN /\ pc'[p] = "addRows"
                         /\ Len(hist'.inserts) = n + 1
                         /\ hist'.inserts[n + 1].b = hist.inserts[n].b + 1
                         /\ job'.status = "running"
                    ELSE /\ pc'[p] = "done"
                         /\ job'.status = "completed"]_vars
  /\ [](\A m, n \in 1..Len(hist.inserts) :
          hist.inserts[m].b = hist.inserts[n].b => m = n)

C9_Witness ==
  \E n \in 1..Len(hist.inserts) :
    /\ hist.inserts[n].state = "rejected"
    /\ n < Len(hist.inserts)
    /\ Len(job.progress.errors) = batchSize

(* C10: a bad row is isolated: it is recorded in progress.errors, the      *)
(* other rows of its batch are inserted, and the job reaches completed.    *)
C10_RowIsolation ==
  \A n \in 1..Len(hist.inserts) :
    hist.inserts[n].state = "rejected" =>
      \A r \in SourceBatch(hist.inserts[n].b) :
        r \notin badRows => r \in DestSources(dest)

(* the executions that were started have all ended *)
AllFlowsOver == \A p \in Procs : pc[p] \in {"idle", "done"}

FailedImageOps == {o \in hist.imageOps : o.outcome = "failed"}

FallbackImageOps == {o \in hist.imageOps : o.outcome = "fallback"}

(* C11: no image failure fails the job: while the image queue is handled   *)
(* no exception leaves it and the status failed is not stored, whatever    *)
(* the download, attach and fallback calls answer; an execution with       *)
(* failed images (and a working store, source and destination) ends with   *)
(* the job completed and the failures counted in failedImages.             *)
C11_ImageFailuresNeverFail ==
  /\ [][\A p \in Procs :
          pc[p] = "images"
          => /\ loc'[p].outcome # "threw"
             /\ job'.status # "failed"
             /\ pc'[p] \in {"images", "addRows", "done"}]_vars
  /\ []((AllFlowsOver /\ hist.imageOps # {})
          => /\ job.status = "completed"
             /\ job.progress.failedImages = Cardinality(FailedImageOps))

C11_Witness ==
  /\ AllFlowsOver
  /\ job.status = "completed"
  /\ \E o \in FailedImageOps : o.rowId # 0
  /\ job.progress.failedImages >= 1

(* C12: when an image download fails and the fallback hyperlink write      *)
(* succeeds, fallbackImages is increased by one for the image, a warning   *)
(* of type image_fallback is appended to progress.warnings, and the job    *)
(* still ends completed.                                                   *)
C12_FallbackWarning ==
  (AllFlowsOver /\ FallbackImageOps # {})
  => /\ job.status = "completed"
     /\ job.progress.fallbackImages = Cardinality(FallbackImageOps)
     /\ \E i \in 1..Len(job.progress.warnings) :
          job.progress.warnings[i].type = "image_fallback"

(* C13: when both the image transfer and the fallback hyperlink write      *)
(* fail for a queued image, an error for that image is recorded in         *)
(* progress.errors and the destination cell keeps the placeholder text     *)
(* written at row insertion.                                               *)
C13_HardErrorRecorded ==
  (AllFlowsOver /\ FailedImageOps # {})
  => /\ \A o \in FailedImageOps :
          o.rowId # 0 =>
            DestRowById(dest, o.rowId).cells[o.url[3]] = "Loading image..."
     /\ \E i \in 1..Len(job.progress.errors) :
          job.progress.errors[i].type \in {"image_upload_failed",
                                           "image_access_denied"}

CounterFields ==
  { "totalRows", "processedRows", "totalImages", "processedImages",
    "successfulImages", "fallbackImages", "failedImages" }

(* C14: from one persisted progress record to the next, none of the        *)
(* counters totalRows, processedRows, totalImages, processedImages,        *)
(* successfulImages, fallbackImages, failedImages decreases; the record    *)
(* written when the job fails is included.                                 *)
C14_CountersMonotone ==
  [][\A f \in CounterFields : job'.progress[f] >= job.progress[f]]_vars

C14_Witness ==
  /\ job.status = "failed"
  /\ hist.storeFailed
  /\ job.progress.processedRows > 0

(* C15: from one persisted progress record to the next, currentBatch does  *)
(* not decrease, and every persisted currentBatch lies between 1 and       *)
(* totalBatches.                                                           *)
C15_CurrentBatchMonotone ==
  [][job'.progress.currentBatch # Undefined
     => /\ 1 <= job'.progress.currentBatch
        /\ job'.progress.currentBatch <= job'.progress.totalBatches
        /\ job'.progress.currentBatch >= job.progress.currentBatch]_vars

IsPrefix(s, t) == Len(s) <= Len(t) /\ \A i \in 1..Len(s) : s[i] = t[i]

(* the number of rows of the rejected insert calls among the first n *)
RECURSIVE RejectedRows(_)
RejectedRows(n) ==
  IF n = 0 THEN 0
  ELSE RejectedRows(n - 1)
         + (IF hist.inserts[n].state = "rejected"
            THEN Cardinality(SourceBatch(hist.inserts[n].b)) ELSE 0)

(* C16: the errors list is append-only: every persisted errors list has    *)
(* the one persisted before as a prefix; and errors are not deduplicated:  *)
(* a live job that is over holds one entry per row of every rejected       *)
(* insert call, plus one general_error if it failed.                       *)
C16_ErrorsAppendOnly ==
  /\ [][IsPrefix(job.progress.errors, job'.progress.errors)]_vars
  /\ []((AllFlowsOver /\ ~job.dryRun /\ job.status = "completed")
          => Len(job.progress.errors) = RejectedRows(Len(hist.inserts)))

C16_Witness ==
  /\ job.status = "completed"
  /\ ~job.dryRun
  /\ \E i, k \in 1..Len(job.progress.errors) :
       i < k /\ job.progress.errors[i] = job.progress.errors[k]

(* C17: a progress write that the store fails during the batch loop does   *)
(* not abort the execution: no exception leaves it and the job is not      *)
(* stored as failed.                                                       *)
C17_ProgressWriteBestEffort ==
  hist.storeFailed =>
    /\ \A p \in Procs : loc[p].outcome # "threw"
    /\ job.status # "failed"

(* C18: the execution of a dry-run job makes no call that changes the      *)
(* destination sheet (no row insert, no image attach, no cell update) and  *)
(* leaves the destination as it was; when performDryRun has returned the   *)
(* job is completed with processedRows equal to totalRows.                 *)
C18_DryRunWritesNothing ==
  job.dryRun =>
    /\ dest = <<>>
    /\ hist.destWrites = 0
    /\ Len(hist.inserts) = 0
    /\ hist.imageOps = {}
    /\ \A p \in Procs :
         loc[p].outcome = "returned"
         => /\ job.status = "completed"
            /\ job.progress.processedRows = job.progress.totalRows

C18_Witness ==
  /\ job.dryRun
  /\ job.status = "completed"
  /\ job.progress.totalRows > batchSize
  /\ job.progress.totalImages > 0

(* C19: a dry run validates at most 50 images, and inaccessibleImages of   *)
(* getDryRunResult is the estimate over all images: with more than 50      *)
(* images round(inaccessible in sample / sample size * images), with at    *)
(* most 50 images the number of inaccessible images.                       *)
C19_DryRunEstimate ==
  call.op = "returned" =>
    /\ call.validated <= 50
    /\ call.summary.inaccessibleImages =
         (IF call.images > 50
          THEN Round(call.inaccessible * call.images, call.validated)
          ELSE call.inaccessible)

(* C20: when the fetch of every tab of the source fails, no batch is       *)
(* attempted and the execution ends with the job failed and the error      *)
(* appended to progress.errors.                                            *)
C20_UnreachableSourceFails ==
  hist.unreachable =>
    /\ Len(hist.inserts) = 0
    /\ AllFlowsOver
       => /\ job.status = "failed"
          /\ Len(job.progress.errors) > 0

(***************************************************************************)
(* C21: once column reconciliation has succeeded in a flow, every mapping  *)
(* of the flow holds the id of the destination sheet's column at the same  *)
(* ordinal position, so it names an existing column and no two mappings    *)
(* name the same column; every cell of the rows the flow submits, and      *)
(* every image queued for a cell, carries one of these ids.                *)
(***************************************************************************)
Reconciled(p) == Len(loc[p].columnMappings) > 0

InitIdle ==
  /\ job = CreateTransferJob(MaxCols, FALSE)
  /\ tokens = TRUE
  /\ tabLen = <<2>>
  /\ imgCells = {}
  /\ badRows = {}
  /\ sheetCols = MaxCols
  /\ dest = <<>>
  /\ pc = [p \in Procs |-> "idle"]
  /\ loc = [p \in Procs |-> InitLoc]
  /\ hist = InitHist
  /\ storeFault = 0

progVars == <<job, tokens, tabLen, imgCells, badRows, sheetCols, dest, pc, loc,
              hist, storeFault>>

(* sequences over S of length lo..hi *)
SeqsOf(S, lo, hi) == UNION {[1..n -> S] : n \in lo..hi}

IsInjective(s) == \A i, j \in DOMAIN s : s[i] = s[j] => i = j

(***************************************************************************)
(* Column reconciliation (performActualTransfer, lines 286-300), applied   *)
(* repeatedly to a mapping list against one destination schema.  The       *)
(* mappings arrive with provisional ids or with ids of the sheet; the      *)
(* schema is a list of distinct column ids.                                *)
(***************************************************************************)
MaxMappings == 2
MaxSheetColumns == 3
MaxReconciles == 2

MappingIds ==
  {SheetColumnId(i) : i \in 1..MaxSheetColumns} \cup {ProvisionalColumnId(1)}

Schemas ==
  {s \in SeqsOf({SheetColumnId(i) : i \in 1..MaxSheetColumns},
                0, MaxSheetColumns) : IsInjective(s)}

InitReconcile ==
  /\ InitIdle
  /\ \E cm \in SeqsOf(MappingIds, 0, MaxMappings), columns \in Schemas :
       call = [op |-> "reconcile", input |-> cm, columnMappings |-> cm,
               columns |-> columns, results |-> <<>>, threw |-> FALSE]

(* one run of the reconciliation on the current mapping list *)
Reconcile ==
  /\ call.op = "reconcile"
  /\ ~call.threw
  /\ Len(call.results) < MaxReconciles
  /\ IF MappingFails(call.columnMappings, Len(call.columns))
     THEN call' = [call EXCEPT !.threw = TRUE]
     ELSE LET fixedColumnMappings ==
                FixColumnMappings(call.columnMappings, call.columns)
          IN  call' = [call EXCEPT !.columnMappings = fixedColumnMappings,
                                   !.results = Append(@, fixedColumnMappings)]
  /\ UNCHANGED progVars

NextReconcile == Reconcile

SpecReconcile == InitReconcile /\ [][NextReconcile]_vars

MaxRetriesArg == 3

(* maxRetries: number = 2 *)
DefaultMaxRetries == 2

(* error.message of what makeAuthenticatedRequest throws: its own error    *)
(* for a 401 answer, or the error of the HTTP client                       *)
RequestErrors ==
  {"Token expired or invalid", "Request failed with status code 500",
   "Network Error"}

RECURSIVE Pow2(_)
Pow2(n) == IF n = 0 THEN 1 ELSE 2 * Pow2(n - 1)

(* Math.pow(2, attempt) * 1000 *)
RetryDelay(attempt) == Pow2(attempt) * 1000

(* mutation of ShouldWait: the last failed attempt is followed by a wait *)
ShouldWaitMutant(attempt, maxRetries) == attempt <= maxRetries

(* if (attempt < maxRetries) *)
ShouldWait(attempt, maxRetries) == attempt < maxRetries

Event(kind, ms) == [kind |-> kind, ms |-> ms]

InitRetry ==
  /\ InitIdle
  /\ \E maxRetries \in 0..MaxRetriesArg :
       call = [op |-> "addRowWithRetry", maxRetries |-> maxRetries,
               at |-> IF 0 <= maxRetries THEN "post" ELSE "returned",
               attempt |-> 0, lastError |-> "", errors |-> <<>>,
               trace |-> <<>>,
               return |-> [success |-> FALSE, error |-> ""]]

(* the POST of the current attempt returns, or fails with a message *)
RetryPost ==
  /\ call.op = "addRowWithRetry"
  /\ call.at = "post"
  /\ \/ call' = [call EXCEPT
                   !.trace = @ \o <<Event("post", 0), Event("ok", 0)>>,
                   !.at = "returned",
                   !.return = [success |-> TRUE, error |-> ""]]
     \/ \E message \in RequestErrors :
          LET t == call.trace \o <<Event("post", 0), Event("fail", 0)>>
          IN  IF ShouldWait(call.attempt, call.maxRetries)
              THEN call' = [call EXCEPT
                              !.lastError = message,
                              !.errors = Append(@, message),
                              !.trace = Append(t, Event("wait",
                                                  RetryDelay(call.attempt))),
                              !.at = "wait"]
              ELSE IF call.attempt + 1 <= call.maxRetries
              THEN call' = [call EXCEPT !.lastError = message,
                                        !.errors = Append(@, message),
                                        !.trace = t, !.attempt = @ + 1]
              ELSE call' = [call EXCEPT
                              !.lastError = message,
                              !.errors = Append(@, message),
                              !.trace = t, !.attempt = @ + 1,
                              !.at = "returned",
                              !.return =
                                 [success |-> FALSE,
                                  error |-> IF message # "" THEN message
                                            ELSE "Failed after retries"]]
  /\ UNCHANGED progVars

(* the timer of the backoff fires: the loop goes to the next attempt *)
RetryWait ==
  /\ call.op = "addRowWithRetry"
  /\ call.at = "wait"
  /\ IF call.attempt + 1 <= call.maxRetries
     THEN call' = [call EXCEPT !.attempt = @ + 1, !.at = "post"]
     ELSE call' = [call EXCEPT
                     !.attempt = @ + 1, !.at = "returned",
                     !.return = [success |-> FALSE,
                                 error |-> IF call.lastError # ""
                                           THEN call.lastError
                                           ELSE "Failed after retries"]]
  /\ UNCHANGED progVars

NextRetry == RetryPost \/ RetryWait

SpecRetry == InitRetry /\ [][NextRetry]_vars

(***************************************************************************)
(* C23: with the default maxRetries, addRowWithRetry makes at most 3       *)
(* insert attempts, waits 1s before the first retry and 2s before the      *)
(* second and does not wait after the last failed attempt, stops at the    *)
(* first success returning success, and after 3 failures returns           *)
(* success = false with the last error message.                            *)
(***************************************************************************)
ThreeFailures ==
  <<Event("post", 0), Event("fail", 0), Event("wait", 1000),
    Event("post", 0), Event("fail", 0), Event("wait", 2000),
    Event("post", 0), Event("fail", 0)>>

Posts(trace) == Len(SelectSeq(trace, LAMBDA e : e.kind = "post"))

Char(s, i) == SubSeq(s, i, i)

Digits == {"0", "1", "2", "3", "4", "5", "6", "7", "8", "9"}

UpperLetters == "ABCDEFGHIJKLMNOPQRSTUVWXYZ"

LowerLetters == "abcdefghijklmnopqrstuvwxyz"

(* \w of the regular expressions *)
IsWordChar(c) ==
  \/ c \in Digits
  \/ c = "_"
  \/ \E i \in 1..26 : c = Char(UpperLetters, i) \/ c = Char(LowerLetters, i)

(* /^\d+$/ *)
IsDigits(s) == Len(s) > 0 /\ \A i \in 1..Len(s) : Char(s, i) \in Digits

(* s.startsWith(prefix) *)
StartsWith(s, prefix) ==
  Len(s) >= Len(prefix) /\ SubSeq(s, 1, Len(prefix)) = prefix

EndsWith(s, suffix) ==
  Len(s) >= Len(suffix) /\ SubSeq(s, Len(s) - Len(suffix) + 1, Len(s)) = suffix

(* s.trim(), for the blank as the only white space in use *)
RECURSIVE Trim(_)
Trim(s) ==
  IF Len(s) > 0 /\ Char(s, 1) = " " THEN Trim(SubSeq(s, 2, Len(s)))
  ELSE IF Len(s) > 0 /\ Char(s, Len(s)) = " " THEN Trim(SubSeq(s, 1, Len(s) - 1))
  ELSE s

(* the /i flag: matching is done on the lower-cased text *)
LowerChar(c) ==
  IF \E i \in 1..26 : c = Char(UpperLetters, i)
  THEN Char(LowerLetters, CHOOSE i \in 1..26 : c = Char(UpperLetters, i))
  ELSE c

RECURSIVE ToLower(_)
ToLower(s) ==
  IF Len(s) = 0 THEN s
  ELSE LowerChar(Char(s, 1)) \o ToLower(SubSeq(s, 2, Len(s)))

(* /\b(word)\b/ on a lower-cased text, for a word of word characters *)
ContainsWord(s, word) ==
  \E i \in 1..(Len(s) - Len(word) + 1) :
    /\ SubSeq(s, i, i + Len(word) - 1) = word
    /\ i > 1 => ~IsWordChar(Char(s, i - 1))
    /\ i + Len(word) <= Len(s) => ~IsWordChar(Char(s, i + Len(word)))

(* !isNaN(Number(s)): white space is trimmed, the empty text is 0, and a   *)
(* decimal literal with an optional sign is a number (the cell values in   *)
(* use hold no exponent, hexadecimal or Infinity literal)                  *)
IsNumber(s) ==
  LET t == Trim(s)
      u == IF Len(t) > 0 /\ Char(t, 1) \in {"+", "-"}
           THEN SubSeq(t, 2, Len(t)) ELSE t
      dots == {i \in 1..Len(u) : Char(u, i) = "."}
  IN  \/ t = ""
      \/ /\ \A i \in 1..Len(u) : Char(u, i) \in Digits \cup {"."}
         /\ \E i \in 1..Len(u) : Char(u, i) \in Digits
         /\ \A i, j \in dots : i = j

(* /^\d{1,2}\/\d{1,2}\/\d{2,4}$/ *)
IsDateShaped(s) ==
  \E i, j \in 1..Len(s) :
    /\ i < j /\ Char(s, i) = "/" /\ Char(s, j) = "/"
    /\ i - 1 \in 1..2 /\ IsDigits(SubSeq(s, 1, i - 1))
    /\ j - i - 1 \in 1..2 /\ IsDigits(SubSeq(s, i + 1, j - 1))
    /\ Len(s) - j \in 2..4 /\ IsDigits(SubSeq(s, j + 1, Len(s)))

(* `Column ${index + 1}` for the cell at position index (counted from 1) *)
GenericName(index) == "Column " \o ToString(index)

(* h.startsWith('Column ') *)
IsGenericName(h) == StartsWith(h, "Column ")

(* isNonHeaderContent *)
IsNonHeaderContent(text) ==
  LET lower == ToLower(text)
  IN  \/ Trim(text) = ""
      \/ IsDigits(text)
      \/ /\ Len(text) >= 2
         /\ \E i \in 1..26 : Char(text, 1) = Char(UpperLetters, i)
         /\ IsDigits(SubSeq(text, 2, Len(text)))
      \/ StartsWith(lower, "page ") /\ Len(lower) >= 6 /\ Char(lower, 6) \in Digits
      \/ StartsWith(lower, "total")
      \/ StartsWith(lower, "sum")
      \/ StartsWith(lower, "average")
      \/ StartsWith(lower, "note:")
      \/ StartsWith(lower, "notes:")

(* the words of the anchored patterns of isLikelyColumnHeader *)
HeaderWords ==
  {"id", "name", "title", "description", "type", "status", "date", "time",
   "amount", "price", "quantity", "total",
   "item", "product", "service", "category", "group", "department",
   "location", "contact", "email", "phone",
   "address", "city", "state", "country", "zip", "code", "number",
   "reference", "comment", "note", "notes",
   "project", "job", "task", "phase", "trade", "contractor",
   "subcontractor", "vendor", "bid",
   "scope", "work", "material", "labor", "equipment", "cost", "budget",
   "actual", "variance",
   "schedule", "start", "end", "duration", "completion", "milestone",
   "deliverable",
   "rfi", "submittal", "co", "drawing", "spec", "revision",
   "account", "invoice", "payment", "balance", "credit", "debit", "tax",
   "discount",
   "revenue", "expense", "profit", "margin", "rate", "fee", "charge",
   "po", "requisition", "approval", "authorized",
   "employee", "staff", "worker", "manager", "supervisor", "division",
   "hours", "overtime", "pto", "vacation", "sick", "salary", "wage",
   "sku", "part", "component", "stock", "inventory", "qty", "unit", "uom",
   "warehouse", "bin", "shelf", "supplier", "manufacturer", "brand"}

(* the words of its two \b...\b patterns *)
HeaderKeyWords ==
  {"id", "name", "date", "time", "status", "type", "code", "no", "num",
   "qty", "amt",
   "total", "subtotal", "sum", "count", "avg", "min", "max"}

(* /^first.?last$/ on a lower-cased text *)
MatchesJoined(s, first, last) ==
  /\ StartsWith(s, first) /\ EndsWith(s, last)
  /\ Len(s) - Len(first) - Len(last) \in 0..1

(* isLikelyColumnHeader *)
IsLikelyColumnHeader(text) ==
  LET lower == ToLower(text)
  IN  \/ lower \in HeaderWords
      \/ MatchesJoined(lower, "change", "order")
      \/ MatchesJoined(lower, "purchase", "order")
      \/ \E word \in HeaderKeyWords : ContainsWord(lower, word)

(* processHeaderRow: the cleaned label of every cell of the row *)
ProcessHeaderRow(row) ==
  [index \in 1..Len(row) |->
     LET cell == row[index]
         cleaned == Trim(cell)
     IN  IF cell = "" THEN GenericName(index)
         ELSE IF IsNonHeaderContent(cleaned) THEN GenericName(index)
         ELSE IF cleaned # "" THEN cleaned
         ELSE GenericName(index)]

NonGenericHeaders(headers) == SelectSeq(headers, LAMBDA h : ~IsGenericName(h))

(* scoreHeaderRow, lines 419-436: the points of the labels themselves *)
RECURSIVE LabelScore(_)
LabelScore(nonGenericHeaders) ==
  IF nonGenericHeaders = <<>> THEN 0
  ELSE LET header == Head(nonGenericHeaders)
       IN  (IF Len(header) >= 2 /\ Len(header) <= 30 THEN 1 ELSE 0)
           + (IF IsLikelyColumnHeader(header) THEN 3 ELSE 0)
           - (IF Len(header) > 50 THEN 2 ELSE 0)
           + LabelScore(Tail(nonGenericHeaders))

(* isNaN(Number(headerCell)) *)
IsHeaderText(headerCell) == ~IsNumber(headerCell)

(* !isNaN(Number(dataCell)) *)
IsDataNumber(dataCell) == IsNumber(dataCell)

(* scoreHeaderRow, lines 439-467: the points for the row below; rowIndex   *)
(* counts from 0, so allRows[rowIndex + 2] is the row below                *)
DataBelowScore(headers, allRows, rowIndex) ==
  IF rowIndex < Len(allRows) - 1 /\ Len(allRows[rowIndex + 2]) > 0
  THEN LET nextRow == allRows[rowIndex + 2]
           compared == {i \in 1..Min2(Len(headers), Len(nextRow)) :
                          /\ headers[i] # ""
                          /\ ~IsGenericName(headers[i])
                          /\ nextRow[i] # ""}
           shifted == {i \in compared : /\ IsHeaderText(headers[i])
                                        /\ IsDataNumber(nextRow[i])}
           hasDataBelow == compared # {}
       IN  2 * Cardinality(shifted) + (IF hasDataBelow THEN 3 ELSE 0)
  ELSE 0

(* scoreHeaderRow, lines 469-474: fillRatio > 0.7 *)
FillBonus(headers) ==
  LET filledCells ==
        Len(SelectSeq(headers, LAMBDA h : h # "" /\ ~IsGenericName(h)))
  IN  IF Len(headers) > 0 /\ 10 * filledCells > 7 * Len(headers)
      THEN 3 ELSE 0

(* scoreHeaderRow, lines 476-480 *)
CountBonus(headers) == IF Len(headers) >= 3 /\ Len(headers) <= 50 THEN 2 ELSE 0

(* scoreHeaderRow, lines 482-486 *)
NumericPenalty(nonGenericHeaders) ==
  LET allNumeric == \A i \in 1..Len(nonGenericHeaders) :
                      \/ IsNumber(nonGenericHeaders[i])
                      \/ IsDateShaped(nonGenericHeaders[i])
  IN  IF allNumeric /\ Len(nonGenericHeaders) > 0 THEN 10 ELSE 0

ScoreHeaderRow(headers, allRows, rowIndex) ==
  LET nonGenericHeaders == NonGenericHeaders(headers)
  IN  Len(nonGenericHeaders) * 2
      + LabelScore(nonGenericHeaders)
      + DataBelowScore(headers, allRows, rowIndex)
      + FillBonus(headers)
      + CountBonus(headers)
      - NumericPenalty(nonGenericHeaders)

(* findBestHeaderRow looks at no more rows than this *)
HeaderCandidates == 10

RECURSIVE MaxRowLength(_)
MaxRowLength(rows) ==
  IF rows = <<>> THEN 0
  ELSE LET m == MaxRowLength(Tail(rows))
       IN  IF Len(Head(rows)) > m THEN Len(Head(rows)) ELSE m

(* the loop of findBestHeaderRow from row rowIndex on *)
RECURSIVE BestRowFrom(_, _, _)
BestRowFrom(rows, rowIndex, bestRow) ==
  IF rowIndex < Min2(Len(rows), HeaderCandidates)
  THEN LET processedHeaders == ProcessHeaderRow(rows[rowIndex + 1])
           score == ScoreHeaderRow(processedHeaders, rows, rowIndex)
       IN  BestRowFrom(rows, rowIndex + 1,
                       IF score > bestRow.score
                       THEN [headers |-> processedHeaders,
                             rowIndex |-> rowIndex, score |-> score]
                       ELSE bestRow)
  ELSE bestRow

FindBestHeaderRow(rows) ==
  LET bestRow == BestRowFrom(rows, 0, [headers |-> <<>>, rowIndex |-> 0,
                                       score |-> 0 - 1])
  IN  IF bestRow.score <= 0 /\ Len(rows) > 0
      THEN [bestRow EXCEPT !.headers =
              [i \in 1..MaxRowLength(rows) |-> GenericName(i)]]
      ELSE bestRow

(* spreadsheets.values.get for the range 1:n: the first n rows of the tab, *)
(* up to the last of them that is not empty                                *)
RECURSIVE DropEmptyRows(_)
DropEmptyRows(rows) ==
  IF rows # <<>> /\ rows[Len(rows)] = <<>>
  THEN DropEmptyRows(SubSeq(rows, 1, Len(rows) - 1))
  ELSE rows

ValuesGet(sheet, n) == DropEmptyRows(SubSeq(sheet, 1, Min2(n, Len(sheet))))

(***************************************************************************)
(* Header detection and header row resolution, studied on their own for    *)
(* one tab: the preview (getHeaderPreview), the detector of the execution  *)
(* path (getSpreadsheetHeadersWithRowIndex), and the first lines of        *)
(* performActualTransfer for a job created with or without an override     *)
(* and re-read from the job store.                                         *)
(***************************************************************************)
MaxGridRows == 2
MaxGridCols == 2
MaxTallRows == 6
MaxWideCols == 10
MaxOverride == 1

(* rows.values.get range of the preview: 1:10 *)
PreviewRows == 10

(* rows.values.get range of getSpreadsheetHeadersWithRowIndex: 1:5 *)
ExecutionRows == 5

(* SQL NULL, as read back from the job store *)
Null == 0 - 2

GridCells == {"", "Name", "Total", "42", "3.5"}
TallCells == {"", "Name", "3.5"}
WideCells == {"Name", "42"}

(* rows end with their last non-empty cell, tabs with their last non-empty *)
(* row                                                                     *)
RowsOf(cells, lo, hi) ==
  {r \in SeqsOf(cells, lo, hi) : r = <<>> \/ r[Len(r)] # ""}

SheetsOf(rows, hi) ==
  {s \in SeqsOf(rows, 0, hi) : s = <<>> \/ s[Len(s)] # <<>>}

(* small tabs of mixed cells; tall tabs of one column; one wide row *)
Sheets ==
  SheetsOf(RowsOf(GridCells, 0, MaxGridCols), MaxGridRows)
    \cup SheetsOf(RowsOf(TallCells, 0, 1), MaxTallRows)
    \cup {<<r>> : r \in RowsOf(WideCells, 1, MaxWideCols)}

NoPreview == [done |-> FALSE, detectedHeaderRow |-> 0, rowOptions |-> <<>>]

NoDetection == [done |-> FALSE, headerRowIndex |-> 0]

NoExecution ==
  [done |-> FALSE, stored |-> Undefined, detectorRan |-> FALSE,
   headerRowIndex |-> Undefined, firstRow |-> 0]

InitHeader ==
  /\ InitIdle
  /\ \E sheet \in Sheets, k \in {Undefined} \cup 0..MaxOverride :
       call = [op |-> "header", sheet |-> sheet, override |-> k,
               preview |-> NoPreview, detection |-> NoDetection,
               execution |-> NoExecution]

(* getHeaderPreview: the detected header row, and every candidate row with *)
(* its score (rowOptions before it is sorted and cut), with the parts of   *)
(* the score kept for the properties                                       *)
GetHeaderPreview ==
  /\ call.op = "header"
  /\ ~call.preview.done
  /\ LET rows == ValuesGet(call.sheet, PreviewRows)
         bestHeaderRow == FindBestHeaderRow(rows)
         option(i) ==
           LET processedHeaders == ProcessHeaderRow(rows[i + 1])
           IN  [rowIndex |-> i, preview |-> processedHeaders,
                score |-> ScoreHeaderRow(processedHeaders, rows, i),
                fillBonus |-> FillBonus(processedHeaders)]
     IN  call' = [call EXCEPT !.preview =
                    [done |-> TRUE,
                     detectedHeaderRow |-> bestHeaderRow.rowIndex,
                     rowOptions |->
                       [n \in 1..Min2(Len(rows), HeaderCandidates) |->
                          option(n - 1)]]]
  /\ UNCHANGED progVars

(* getSpreadsheetHeadersWithRowIndex *)
GetSpreadsheetHeadersWithRowIndex(sheet) ==
  FindBestHeaderRow(ValuesGet(sheet, ExecutionRows)).rowIndex

DetectHeaders ==
  /\ call.op = "header"
  /\ ~call.detection.done
  /\ call' = [call EXCEPT !.detection =
                [done |-> TRUE,
                 headerRowIndex |->
                   GetSpreadsheetHeadersWithRowIndex(call.sheet)]]
  /\ UNCHANGED progVars

(* createTransferJob of the store: job.headerRowIndex ?? null *)
StoredHeaderRowIndex(headerRowIndex) ==
  IF headerRowIndex = Undefined THEN Null ELSE headerRowIndex

(* parseTransferJobRow: headerRowIndex: row.header_row_index *)
ParsedHeaderRowIndex(header_row_index) == header_row_index

(* `A${headerRowIndex + 1}:ZZ`: the first row of the range of the source   *)
(* read (null + 1 is 1)                                                    *)
RangeFirstRow(headerRowIndex) ==
  IF headerRowIndex = Null THEN 1 ELSE headerRowIndex + 1

(* performActualTransfer, lines 242-267, for the job as executeTransfer    *)
(* reads it from the store                                                 *)
ResolveHeaderRow ==
  /\ call.op = "header"
  /\ ~call.execution.done
  /\ LET stored == StoredHeaderRowIndex(call.override)
         jobHeaderRowIndex == ParsedHeaderRowIndex(stored)
         detect == jobHeaderRowIndex = Undefined
         headerRowIndex ==
           IF detect THEN GetSpreadsheetHeadersWithRowIndex(call.sheet)
           ELSE jobHeaderRowIndex
     IN  call' = [call EXCEPT !.execution =
                    [done |-> TRUE, stored |-> stored, detectorRan |-> detect,
                     headerRowIndex |-> headerRowIndex,
                     firstRow |-> RangeFirstRow(headerRowIndex)]]
  /\ UNCHANGED progVars

NextHeader == GetHeaderPreview \/ DetectHeaders \/ ResolveHeaderRow

SpecHeader == InitHeader /\ [][NextHeader]_vars

(***************************************************************************)
(* C24: header row resolution for the job as re-read from the job store:   *)
(* with an override k the execution reads the source from row k and does   *)
(* not run the detector; without an override it reads from the row the     *)
(* header detector returns for the first tab.                              *)
(***************************************************************************)
C24_HeaderRowResolution ==
  call.execution.done =>
    IF call.override # Undefined
    THEN /\ ~call.execution.detectorRan
         /\ call.execution.firstRow = call.override + 1
    ELSE call.execution.firstRow =
           GetSpreadsheetHeadersWithRowIndex(call.sheet) + 1

(***************************************************************************)
(* C27: the header detector returns the candidate row with the highest     *)
(* score, and among several rows with the highest score the one with the   *)
(* lowest index.                                                           *)
(***************************************************************************)
C27_HighestScoreWins ==
  call.preview.done /\ call.preview.rowOptions # <<>> =>
    LET options == call.preview.rowOptions
        r == call.preview.detectedHeaderRow
    IN  /\ r + 1 \in DOMAIN options
        /\ \A n \in DOMAIN options :
             /\ options[n].score <= options[r + 1].score
             /\ options[n].score = options[r + 1].score =>
                  r <= options[n].rowIndex

(***************************************************************************)
(* C28: header detection takes the first 10 rows of the tab as candidates  *)
(* on every path: the row the execution path detects is the best-scoring   *)
(* row among rows 0..9 and equals the detected header row of the preview   *)
(* of the same tab.                                                        *)
(***************************************************************************)
C28_SameCandidatesOnEveryPath ==
  call.preview.done /\ call.detection.done =>
    /\ call.detection.headerRowIndex = call.preview.detectedHeaderRow
    /\ call.detection.headerRowIndex =
         FindBestHeaderRow(ValuesGet(call.sheet, 10)).rowIndex

(***************************************************************************)
(* C29: a candidate row that has, in some column, a textual label above a  *)
(* numeric cell scores strictly higher than the same row above any row     *)
(* that gives it no such type-shift in any column.                         *)
(***************************************************************************)
TypeShift(row, headers, below) ==
  \E i \in 1..Min2(Len(headers), Len(below)) :
    /\ row[i] # "" /\ ~IsNumber(row[i])
    /\ IsHeaderText(headers[i])
    /\ below[i] # "" /\ IsDataNumber(below[i])

C29_TypeShiftScoresHigher ==
  call.preview.done =>
    LET rows == ValuesGet(call.sheet, PreviewRows)
        options == call.preview.rowOptions
    IN  \A n \in DOMAIN options :
          (n < Len(rows) /\ TypeShift(rows[n], options[n].preview, rows[n + 1]))
            => \A other \in RowsOf(GridCells, 0, MaxGridCols) :
                 ~TypeShift(rows[n], options[n].preview, other) =>
                   options[n].score >
                     ScoreHeaderRow(options[n].preview, <<rows[n], other>>, 0)

(***************************************************************************)
(* C30: a candidate row receives the +3 mostly-filled bonus exactly when   *)
(* at least 70% of its cells are non-generic labels, 70% included.         *)
(***************************************************************************)
C30_FillBonusAtSeventyPercent ==
  call.preview.done =>
    \A n \in DOMAIN call.preview.rowOptions :
      LET headers == call.preview.rowOptions[n].preview
          nonGeneric == Len(NonGenericHeaders(headers))
      IN  Len(headers) > 0 =>
            (call.preview.rowOptions[n].fillBonus = 3
               <=> 10 * nonGeneric >= 7 * Len(headers))

(***************************************************************************)
(* C25: within one job the work is strictly sequential.  At no time are    *)
(* two insert calls in flight; an image of a batch is handled only after   *)
(* the insert of that batch has returned its rows; the progress of a batch *)
(* is persisted only when its image queue has been handled to the end;     *)
(* and the insert of the next batch is submitted only with the progress of *)
(* the batch before it persisted.                                          *)
(***************************************************************************)
InFlight == {n \in DOMAIN hist.inserts : hist.inserts[n].state = "inflight"}

(* the number the batch of insert n has within its tab *)
BatchNum(l, n) == (BatchList(l.data)[hist.inserts[n].b].i \div batchSize) + 1

BatchSources(rows) == [k \in 1..Len(rows) |-> rows[k].src]

HasDataRows(data, t) == DataRowCount(data[t]) > 0

(* <<t, r>> is the first data row of data after the tabs up to tab t0 *)
FirstDataRowAfter(data, t0, t, r) ==
  /\ t \in DOMAIN data /\ t > t0 /\ HasDataRows(data, t) /\ r = 1
  /\ \A u \in DOMAIN data : (t0 < u /\ u < t) => ~HasDataRows(data, u)

(* <<t, r>> is the last data row of data *)
LastDataRow(data, t, r) ==
  /\ t \in DOMAIN data /\ r = DataRowCount(data[t]) /\ r > 0
  /\ \A u \in DOMAIN data : u > t => ~HasDataRows(data, u)

C26_BatchesCoverData ==
  [][\A p \in Procs :
       LET data == loc'[p].data
           prev == BatchSources(loc[p].smartsheetRows)
           rows == BatchSources(loc'[p].smartsheetRows)
           submits == /\ Len(hist'.inserts) > Len(hist.inserts)
                      /\ pc'[p] = "addRows"
           returns == /\ loc[p].outcome # "returned"
                      /\ loc'[p].outcome = "returned"
                      /\ ~job.dryRun
       IN  /\ submits =>
                /\ Len(rows) >= 1 /\ Len(rows) <= 50
                /\ \A k \in 1..(Len(rows) - 1) :
                     /\ rows[k + 1][1] = rows[k][1]
                     /\ rows[k + 1][2] = rows[k][2] + 1
                /\ rows[Len(rows)][2] <= DataRowCount(data[rows[1][1]])
                /\ Len(rows) < 50 =>
                     rows[Len(rows)][2] = DataRowCount(data[rows[1][1]])
                /\ IF prev = <<>>
                   THEN FirstDataRowAfter(data, 0, rows[1][1], rows[1][2])
                   ELSE LET last == prev[Len(prev)]
                        IN  \/ /\ rows[1][1] = last[1]
                               /\ rows[1][2] = last[2] + 1
                            \/ /\ last[2] = DataRowCount(data[last[1]])
                               /\ FirstDataRowAfter(data, last[1],
                                                    rows[1][1], rows[1][2])
           /\ returns =>
                IF prev = <<>>
                THEN \A t \in DOMAIN data : ~HasDataRows(data, t)
                ELSE LastDataRow(data, prev[Len(prev)][1], prev[Len(prev)][2])
    ]_vars

(* a tab of 51 data rows went out as a batch of 50 and a batch of 1, and   *)
(* the flow returned                                                       *)
C26_Witness ==
  \E p \in Procs :
    /\ loc[p].outcome = "returned"
    /\ Len(hist.inserts) >= 2
    /\ Len(loc[p].smartsheetRows) = 1
    /\ loc[p].smartsheetRows[1].src[2] = batchSize + 1

(***************************************************************************)
(* Cell extraction (GoogleSheetsService.processSheetData).  The source     *)
(* answers three requests for the range of a tab: the formatted values,    *)
(* the formulas (a cell without formula is rendered as its value), and     *)
(* the rich cell data.  values and formulas end every row with its last    *)
(* non-empty cell.                                                         *)
(***************************************************************************)

(* the least position >= from at which sub occurs in s, or 0 *)
RECURSIVE IndexOf(_, _, _)
IndexOf(s, sub, from) ==
  IF from + Len(sub) - 1 > Len(s) THEN 0
  ELSE IF SubSeq(s, from, from + Len(sub) - 1) = sub THEN from
  ELSE IndexOf(s, sub, from + 1)

(* s.includes(sub) *)
Includes(s, sub) == IndexOf(s, sub, 1) > 0

(* [a-zA-Z0-9_-] *)
IsIdChar(c) == IsWordChar(c) \/ c = "-"

(* the longest run of [a-zA-Z0-9_-] that starts at position i *)
RECURSIVE IdRun(_, _)
IdRun(s, i) ==
  IF i <= Len(s) /\ IsIdChar(Char(s, i))
  THEN Char(s, i) \o IdRun(s, i + 1)
  ELSE ""

(* the longest run of [^"] that starts at position i *)
RECURSIVE QuoteFreeRun(_, _)
QuoteFreeRun(s, i) ==
  IF i <= Len(s) /\ Char(s, i) # "\""
  THEN Char(s, i) \o QuoteFreeRun(s, i + 1)
  ELSE ""

(* the group ([a-zA-Z0-9_-]+) right after the first occurrence of prefix,  *)
(* or "" when the pattern does not match                                   *)
IdAfter(s, prefix) ==
  LET i == IndexOf(s, prefix, 1)
  IN  IF i = 0 THEN "" ELSE IdRun(s, i + Len(prefix))

(* the group ([^"]+) of a pattern /=NAME\s*\(\s*"([^"]+)"\s*[^)]*\)/i for  *)
(* a formula written without blanks before the quote, or ""; opener is     *)
(* the lower-cased text up to and including the quote                      *)
QuotedAfter(formula, opener) ==
  LET lower == ToLower(formula)
      i == IndexOf(lower, opener, 1)
      start == i + Len(opener)
      url == QuoteFreeRun(formula, start)
      close == start + Len(url)
  IN  IF i = 0 \/ url = "" \/ close > Len(formula) THEN ""
      ELSE IF IndexOf(formula, ")", close + 1) = 0 THEN ""
      ELSE url

NoMatch == [url |-> "", id |-> ""]

DownloadUrl(driveId) ==
  "https://drive.google.com/uc?export=download&id=" \o driveId

(* extractImageFromFormula: =IMAGE("url"...) or =HYPERLINK(x, IMAGE("url")) *)
ExtractImageFromFormula(formula) ==
  LET direct == QuotedAfter(formula, "=image(\"")
      lower == ToLower(formula)
      nested == IF StartsWith(lower, "=hyperlink(") /\ Includes(lower, ",")
                THEN QuotedAfter(formula, "image(\"") ELSE ""
      url == IF direct # "" THEN direct ELSE nested
      fileId == IdAfter(url, "drive.google.com/file/d/")
      queryId == IdAfter(url, "id=")
  IN  IF url = "" THEN NoMatch
      ELSE [url |-> url, id |-> IF fileId # "" THEN fileId ELSE queryId]

(* extractHyperlinkFromFormula *)
ExtractHyperlinkFromFormula(formula) ==
  LET url == QuotedAfter(formula, "=hyperlink(\"")
  IN  IF url # "" /\ ~Includes(formula, "IMAGE(") THEN url ELSE ""

(* the group of /https?:\/\/host.*?mark([a-zA-Z0-9_-]+)/ for a text with   *)
(* one URL, or ""                                                          *)
UrlIdAfter(value, host, mark) ==
  LET h == IF Includes(value, "https://" \o host) THEN "https://" \o host
           ELSE "http://" \o host
      i == IndexOf(value, h, 1)
      j == IF i = 0 THEN 0 ELSE IndexOf(value, mark, i + Len(h))
  IN  IF j = 0 THEN "" ELSE IdRun(value, j + Len(mark))

(* drivePatterns of extractDriveImageFromValue, as host and mark *)
DrivePatterns ==
  << <<"drive.google.com/file/d/", "">>,
     <<"drive.google.com/open?id=", "">>,
     <<"drive.google.com/uc?", "id=">>,
     <<"docs.google.com/", "/d/">>,
     <<"drive.google.com/", "">> >>

(* the loop over drivePatterns from pattern n on: the id of the first      *)
(* pattern that matches, or ""                                             *)
RECURSIVE FirstPatternId(_, _)
FirstPatternId(value, n) ==
  IF n > Len(DrivePatterns) THEN ""
  ELSE IF UrlIdAfter(value, DrivePatterns[n][1], DrivePatterns[n][2]) # ""
  THEN UrlIdAfter(value, DrivePatterns[n][1], DrivePatterns[n][2])
  ELSE FirstPatternId(value, n + 1)

(* the match of a file id; "" is no match *)
DriveMatch(driveId) ==
  IF driveId = "" THEN NoMatch
  ELSE [url |-> DownloadUrl(driveId), id |-> driveId]

(* /^[a-zA-Z0-9_-]{33,34}$/ on the trimmed value *)
BareFileId(trimmed) ==
  IF /\ Len(trimmed) \in 33..34
     /\ \A i \in 1..Len(trimmed) : IsIdChar(Char(trimmed, i))
  THEN trimmed ELSE ""

(* extractDriveImageFromValue: the five URL patterns in their order, then  *)
(* the bare file id                                                        *)
ExtractDriveImageFromValue(value) ==
  IF FirstPatternId(value, 1) # "" THEN DriveMatch(FirstPatternId(value, 1))
  ELSE DriveMatch(BareFileId(Trim(value)))

(* a cell of the rich cell data; "" and <<>> stand for absent fields *)
EmbeddedCell(hyperlink, formattedValue, linkUris) ==
  [hyperlink |-> hyperlink, effectiveValue |-> "",
   formattedValue |-> formattedValue, textFormatRuns |-> linkUris]

NoEmbeddedCell == EmbeddedCell("", "", <<>>)

(* the texts extractEmbeddedImage looks at after the hyperlink, in their   *)
(* order: effectiveValue, formattedValue, the links of the text runs       *)
EmbeddedTexts(cellData) ==
  <<cellData.effectiveValue, cellData.formattedValue>>
    \o cellData.textFormatRuns

(* the first of the texts from position n on that holds a Drive image *)
RECURSIVE FirstTextMatch(_, _)
FirstTextMatch(texts, n) ==
  IF n > Len(texts) THEN NoMatch
  ELSE IF ExtractDriveImageFromValue(texts[n]) # NoMatch
  THEN ExtractDriveImageFromValue(texts[n])
  ELSE FirstTextMatch(texts, n + 1)

(* extractEmbeddedImage: hyperlink, effectiveValue, formattedValue, then   *)
(* the links of the text runs                                              *)
ExtractEmbeddedImage(cellData) ==
  IF IdAfter(cellData.hyperlink, "drive.google.com/file/d/") # ""
  THEN DriveMatch(IdAfter(cellData.hyperlink, "drive.google.com/file/d/"))
  ELSE FirstTextMatch(EmbeddedTexts(cellData), 1)

PlainCell(value) ==
  [value |-> value, formula |-> "", isImage |-> FALSE, imageUrl |-> "",
   imageId |-> "", hyperlink |-> ""]

(* a cell marked as the image of a match *)
WithImage(cell, match) ==
  [cell EXCEPT !.isImage = TRUE, !.imageUrl = match.url, !.imageId = match.id]

(* the formula step of the column loop: an IMAGE formula, else a HYPERLINK *)
(* to a Drive file (an image) or to anything else (a hyperlink)            *)
FormulaStep(cellValue, formula, imageMatch, hyperlinkMatch) ==
  IF imageMatch # NoMatch THEN WithImage(PlainCell(cellValue), imageMatch)
  ELSE IF hyperlinkMatch = "" THEN PlainCell(cellValue)
  ELSE IF ~Includes(hyperlinkMatch, "drive.google.com/file/d/")
  THEN [PlainCell(cellValue) EXCEPT !.hyperlink = hyperlinkMatch]
  ELSE IF IdAfter(hyperlinkMatch, "drive.google.com/file/d/") = ""
  THEN PlainCell(cellValue)
  ELSE WithImage(PlainCell(cellValue),
                 DriveMatch(IdAfter(hyperlinkMatch, "drive.google.com/file/d/")))

(* the embedded step: a cell that is no image yet takes the image of its   *)
(* rich cell data                                                          *)
EmbeddedStep(cell, embeddedImageMatch) ==
  IF embeddedImageMatch = NoMatch THEN cell
  ELSE [WithImage(cell, embeddedImageMatch) EXCEPT
          !.value = IF @ = "" THEN "Embedded Image" ELSE @]

(* the value step: a cell that is no image yet takes the Drive image its   *)
(* value names                                                             *)
ValueStep(cell, cellValue) ==
  IF ~cell.isImage /\ cellValue # ""
     /\ ExtractDriveImageFromValue(cellValue) # NoMatch
  THEN WithImage(cell, ExtractDriveImageFromValue(cellValue))
  ELSE cell

(* the body of the column loop of processSheetData for one cell; hasCell   *)
(* tells whether the rich cell data holds the cell                         *)
ProcessCell(cellValue, formula, hasCell, embeddedCell) ==
  LET c1 == FormulaStep(cellValue, formula,
                        IF formula # "" THEN ExtractImageFromFormula(formula)
                        ELSE NoMatch,
                        IF formula # "" THEN ExtractHyperlinkFromFormula(formula)
                        ELSE "")
      c2 == EmbeddedStep(c1, IF ~c1.isImage /\ hasCell
                             THEN ExtractEmbeddedImage(embeddedCell)
                             ELSE NoMatch)
  IN  [ValueStep(c2, cellValue) EXCEPT
         !.formula = IF formula # cellValue THEN formula ELSE ""]

(* mutation of RowColumns: a row is processed up to its own length *)
RowColumnsOwn(row, maxColumns) == Len(row)

(* the bound of the column loop: maxColumns, not row.length *)
RowColumns(row, maxColumns) == maxColumns

Max2(a, b) == IF a > b THEN a ELSE b

(* processSheetData *)
ProcessSheetData(values, formulas, embeddedData) ==
  LET maxColumns == Max2(Max2(MaxRowLength(values), MaxRowLength(formulas)),
                         MaxRowLength(embeddedData))
      rowAt(rows, rowIndex) ==
        IF rowIndex \in DOMAIN rows THEN rows[rowIndex] ELSE <<>>
  IN  [rowIndex \in 1..Max2(Len(values), Len(embeddedData)) |->
         LET row == rowAt(values, rowIndex)
             formulaRow == rowAt(formulas, rowIndex)
             embeddedRow == rowAt(embeddedData, rowIndex)
         IN  [colIndex \in 1..RowColumns(row, maxColumns) |->
                ProcessCell(
                  IF colIndex \in DOMAIN row THEN row[colIndex] ELSE "",
                  IF colIndex \in DOMAIN formulaRow THEN formulaRow[colIndex]
                  ELSE "",
                  colIndex \in DOMAIN embeddedRow,
                  IF colIndex \in DOMAIN embeddedRow THEN embeddedRow[colIndex]
                  ELSE NoEmbeddedCell)]]

(***************************************************************************)
(* Cell extraction studied on its own, for tabs of up to MaxCellRows rows  *)
(* of up to MaxCellCols cells.  A source cell is given by what the three   *)
(* requests return for it.                                                 *)
(***************************************************************************)
MaxCellRows == 2
MaxCellCols == 2

SourceCell(value, formula, embeddedCell) ==
  [value |-> value, formula |-> formula, embedded |-> embeddedCell]

DriveFileUrl == "https://drive.google.com/file/d/abc_1/view"
DriveOpenUrl == "https://drive.google.com/open?id=abc_1"
SiteUrl == "https://a.io"

SourceCells ==
  { SourceCell("", "", NoEmbeddedCell),
    SourceCell("Widget", "", EmbeddedCell("", "Widget", <<>>)),
    SourceCell("", "=IMAGE(\"https://a.io/a.png\")", NoEmbeddedCell),
    SourceCell("photo", "=HYPERLINK(\"" \o DriveFileUrl \o "\",\"photo\")",
               EmbeddedCell(DriveFileUrl, "photo", <<>>)),
    SourceCell("site", "=HYPERLINK(\"" \o SiteUrl \o "\",\"site\")",
               EmbeddedCell(SiteUrl, "site", <<>>)),
    SourceCell(DriveOpenUrl,
               "=HYPERLINK(\"" \o SiteUrl \o "\",\"" \o DriveOpenUrl \o "\")",
               EmbeddedCell(SiteUrl, DriveOpenUrl, <<>>)),
    SourceCell("see photo", "", EmbeddedCell("", "see photo", <<DriveFileUrl>>)) }

CellGrids ==
  SeqsOf(SeqsOf(SourceCells, 0, MaxCellCols), 1, MaxCellRows)

(* a row of rendered cells up to its last non-empty one *)
RECURSIVE DropEmptyCells(_)
DropEmptyCells(row) ==
  IF row # <<>> /\ row[Len(row)] = ""
  THEN DropEmptyCells(SubSeq(row, 1, Len(row) - 1))
  ELSE row

(* valueRenderOption FORMATTED_VALUE *)
FormattedValues(grid) ==
  DropEmptyRows([r \in 1..Len(grid) |->
    DropEmptyCells([c \in 1..Len(grid[r]) |-> grid[r][c].value])])

(* valueRenderOption FORMULA *)
FormulaValues(grid) ==
  DropEmptyRows([r \in 1..Len(grid) |->
    DropEmptyCells([c \in 1..Len(grid[r]) |->
      IF grid[r][c].formula # "" THEN grid[r][c].formula
      ELSE grid[r][c].value])])

(* rowData of spreadsheets.get; [] when that request failed *)
RowData(grid, ok) ==
  IF ok
  THEN [r \in 1..Len(grid) |-> [c \in 1..Len(grid[r]) |-> grid[r][c].embedded]]
  ELSE <<>>

InitCells ==
  /\ InitIdle
  /\ \E grid \in CellGrids, ok \in BOOLEAN :
       call = [op |-> "processSheetData", grid |-> grid,
               values |-> FormattedValues(grid),
               formulas |-> FormulaValues(grid),
               embeddedData |-> RowData(grid, ok),
               processedData |-> <<>>]

ProcessSheetDataCall ==
  /\ call.op = "processSheetData"
  /\ call' = [call EXCEPT
                !.op = "returned",
                !.processedData =
                   ProcessSheetData(call.values, call.formulas,
                                    call.embeddedData)]
  /\ UNCHANGED progVars

NextCells == ProcessSheetDataCall

SpecCells == InitCells /\ [][NextCells]_vars

(***************************************************************************)
(* C31: every classified cell is exactly one of image, hyperlink or plain: *)
(* a cell with isImage = true never also has its hyperlink set.            *)
(***************************************************************************)
C31_OneClassification ==
  call.op = "returned" =>
    \A r \in DOMAIN call.processedData :
      \A c \in DOMAIN call.processedData[r] :
        ~(call.processedData[r][c].isImage
            /\ call.processedData[r][c].hyperlink # "")

(***************************************************************************)
(* C32: every row produced by cell extraction for a tab has the width of   *)
(* the tab's header row, and a cell that none of the three answers holds   *)
(* is an empty plain cell.                                                 *)
(***************************************************************************)
C32_RowsHaveHeaderWidth ==
  call.op = "returned" /\ call.processedData # <<>> =>
    LET rows == call.processedData
        held(answer, r, c) == r \in DOMAIN answer /\ c \in DOMAIN answer[r]
    IN  /\ \A r \in DOMAIN rows : Len(rows[r]) = Len(rows[1])
        /\ \A r \in DOMAIN call.values :
             /\ r \in DOMAIN rows
             /\ Len(call.values[r]) <= Len(rows[r])
             /\ \A c \in DOMAIN call.values[r] :
                  rows[r][c].value # "" \/ call.values[r][c] = ""
        /\ \A r \in DOMAIN rows : \A c \in DOMAIN rows[r] :
             (/\ ~held(call.values, r, c)
              /\ ~held(call.formulas, r, c)
              /\ ~held(call.embeddedData, r, c)) => rows[r][c] = PlainCell("")

(* a data row shorter than the header row was filled up *)
C32_Witness ==
  /\ call.op = "returned"
  /\ Len(call.processedData) = 2
  /\ Len(call.values) = 2
  /\ Len(call.values[1]) = 2 /\ Len(call.values[2]) = 1
  /\ call.processedData[2][2] = PlainCell("")
  /\ call.processedData[1][2].isImage

(***************************************************************************)
(* The start of executeTransfer at the grain of its await expressions.     *)
(* Every store method is an async function, so each                        *)
(* `await database....` ends a step of the call even though the store      *)
(* answers at once: a second call started before the first one resumes     *)
(* runs its own steps in between.  MaxCalls calls are made on one stored   *)
(* job; call.stored is the status column of the job, call.job[c] the job   *)
(* object that call c read, call.at[c] the position of call c and          *)
(* call.inserted the calls whose flow inserted data rows.                  *)
(***************************************************************************)
MaxCalls == 2

Calls == 1..MaxCalls

InitStart ==
  /\ InitIdle
  /\ \E t \in BOOLEAN, d \in BOOLEAN :
       call = [op |-> "executeTransfer",
               stored |-> "pending",
               userTokens |-> t,
               dryRun |-> d,
               at |-> [c \in Calls |-> "idle"],
               job |-> [c \in Calls |-> [status |-> "none"]],
               inserted |-> {}]

(* const job = await database.getTransferJobById(jobId): the row is read   *)
(* when the call is made, the call goes on after the await                 *)
StartGetJob(c) ==
  /\ call.op = "executeTransfer"
  /\ call.at[c] = "idle"
  /\ call' = [call EXCEPT !.at[c] = "getJob",
                          !.job[c] = [status |-> call.stored]]
  /\ UNCHANGED progVars

(* the pending check on the job object read before, then                   *)
(* await database.getUserById(job.userId)                                  *)
StartCheckPending(c) ==
  /\ call.op = "executeTransfer"
  /\ call.at[c] = "getJob"
  /\ call' = [call EXCEPT !.at[c] = IF IsPending(call.job[c]) THEN "getUser"
                                    ELSE "rejected"]
  /\ UNCHANGED progVars

(* the token check; await database.updateTransferJobStatus(jobId, ...)     *)
(* with 'failed' when tokens are missing and with 'running' otherwise      *)
StartSetRunning(c) ==
  /\ call.op = "executeTransfer"
  /\ call.at[c] = "getUser"
  /\ call' = [call EXCEPT
                !.stored = IF call.userTokens THEN "running" ELSE "failed",
                !.at[c] = IF call.userTokens THEN "running" ELSE "thrown"]
  /\ UNCHANGED progVars

(* the flow of the call: token validation and performActualTransfer or     *)
(* performDryRun; ok tells whether it returned or threw, rows whether      *)
(* data rows were inserted before (never in a dry run)                     *)
StartPerform(c) ==
  /\ call.op = "executeTransfer"
  /\ call.at[c] = "running"
  /\ \E ok \in BOOLEAN, rows \in BOOLEAN :
       /\ call.dryRun => ~rows
       /\ call' = [call EXCEPT
                     !.at[c] = IF ok THEN "performed" ELSE "caught",
                     !.inserted = IF rows THEN @ \cup {c} ELSE @]
  /\ UNCHANGED progVars

(* await database.updateTransferJobStatus(jobId, 'completed') and, in the  *)
(* catch block, (jobId, 'failed', updatedProgress)                         *)
StartSettle(c) ==
  /\ call.op = "executeTransfer"
  /\ call.at[c] \in {"performed", "caught"}
  /\ call' = [call EXCEPT
                !.stored = IF call.at[c] = "performed" THEN "completed"
                           ELSE "failed",
                !.at[c] = IF call.at[c] = "performed" THEN "returned"
                          ELSE "thrown"]
  /\ UNCHANGED progVars

NextStart ==
  \E c \in Calls :
    \/ StartGetJob(c)
    \/ StartCheckPending(c)
    \/ StartSetRunning(c)
    \/ StartPerform(c)
    \/ StartSettle(c)

SpecStart == InitStart /\ [][NextStart]_vars

(* the calls that went on after the pending check *)
PastPendingCheck ==
  {c \in Calls : call.at[c] \notin {"idle", "getJob", "rejected"}}

(***************************************************************************)
(* C33: for any interleaving of two executeTransfer calls on the same      *)
(* pending job at most one of them proceeds past the pending check, and    *)
(* the data rows of the job are inserted by at most one execution flow.    *)
(***************************************************************************)
C33_AtMostOneProceeds ==
  call.op = "executeTransfer" =>
    /\ Cardinality(PastPendingCheck) <= 1
    /\ Cardinality(call.inserted) <= 1

(***************************************************************************)
(* convertRowToSmartsheet on classified cells, and one batch of            *)
(* performActualTransfer from the conversion loop to the end of            *)
(* processImageQueue, for batches of up to MaxBatchRows rows of up to      *)
(* MaxRowCells cells and up to MaxRowMappings column mappings.             *)
(***************************************************************************)
MaxBatchRows == 2
MaxRowCells == 2
MaxRowMappings == 2

CellKinds == {"text", "image", "link"}

ImageUrlAt(r, c) ==
  "https://a.io/img" \o ToString(r) \o ToString(c) \o ".png"

(* the classified cell of the given kind in row r (batch-local, from 0)    *)
(* and column c (from 0) of the batch                                      *)
GoogleCell(kind, r, c) ==
  IF kind = "image"
  THEN [PlainCell("") EXCEPT !.isImage = TRUE, !.imageUrl = ImageUrlAt(r, c),
                             !.formula = "=IMAGE(\"" \o ImageUrlAt(r, c) \o "\")"]
  ELSE IF kind = "link"
  THEN [PlainCell("site") EXCEPT !.hyperlink = SiteUrl]
  ELSE PlainCell("Widget")

GoogleBatches ==
  { [r \in 1..Len(shape) |->
       [c \in 1..Len(shape[r]) |-> GoogleCell(shape[r][c], r - 1, c - 1)]] :
    shape \in SeqsOf(SeqsOf(CellKinds, 0, MaxRowCells), 1, MaxBatchRows) }

(* a column mapping after fixColumnMappings; googleColumnIndex Undefined   *)
(* for a mapping stored without it                                         *)
ColumnMapping(googleColumnIndex, dataType, smartsheetColumnId) ==
  [googleColumnIndex |-> googleColumnIndex, dataType |-> dataType,
   smartsheetColumnId |-> smartsheetColumnId]

RowMappings ==
  { [m \in 1..Len(s) |-> ColumnMapping(s[m][1], s[m][2], SheetColumnId(m))] :
    s \in SeqsOf({<<Undefined, "text">>, <<1, "text">>, <<0, "hyperlink">>},
                 1, MaxRowMappings) }

(* mutation of GoogleColumnIndex: the position of the mapping is used      *)
(* whatever the mapping says                                               *)
GoogleColumnIndexByPosition(mapping, i) == i

(* mapping.googleColumnIndex !== undefined ? mapping.googleColumnIndex : i *)
GoogleColumnIndex(mapping, i) ==
  IF mapping.googleColumnIndex # Undefined THEN mapping.googleColumnIndex
  ELSE i

(* formatCellValue for the data types 'text' and 'hyperlink' (the default  *)
(* branch): String(value)                                                  *)
FormatCellValue(value, dataType) == value

SmartsheetCell(columnId, value, hyperlink) ==
  [columnId |-> columnId, value |-> value, hyperlink |-> hyperlink]

Placeholder == "Loading image..."

(* the cell pushed for mapping number i (from 0) *)
ConvertCell(googleRow, mapping, i) ==
  LET googleColumnIndex == GoogleColumnIndex(mapping, i)
  IN  IF googleColumnIndex + 1 \notin DOMAIN googleRow
      THEN SmartsheetCell(mapping.smartsheetColumnId, "", "")
      ELSE LET googleCell == googleRow[googleColumnIndex + 1]
           IN  IF googleCell.isImage /\ googleCell.imageUrl # ""
               THEN SmartsheetCell(mapping.smartsheetColumnId, Placeholder, "")
               ELSE IF googleCell.hyperlink # "" /\ mapping.dataType = "hyperlink"
               THEN SmartsheetCell(mapping.smartsheetColumnId,
                                   IF googleCell.value # "" THEN googleCell.value
                                   ELSE googleCell.hyperlink,
                                   googleCell.hyperlink)
               ELSE SmartsheetCell(mapping.smartsheetColumnId,
                                   FormatCellValue(googleCell.value,
                                                   mapping.dataType), "")

(* mutation of QueueRowIndex: the position among the rows of the sheet,    *)
(* here of a batch that starts at the second data row                      *)
QueueRowIndexOfSheet(currentRowIndex) == currentRowIndex + 1

(* rowIndex: currentRowIndex, the position of the row in its batch *)
QueueRowIndex(currentRowIndex) == currentRowIndex

(* whether mapping number i makes convertRowToSmartsheet queue an image *)
QueuesImage(googleRow, mapping, i) ==
  /\ GoogleColumnIndex(mapping, i) + 1 \in DOMAIN googleRow
  /\ googleRow[GoogleColumnIndex(mapping, i) + 1].isImage
  /\ googleRow[GoogleColumnIndex(mapping, i) + 1].imageUrl # ""

(* the entries convertRowToSmartsheet pushes to the image queue for        *)
(* mappings number i .. last                                               *)
RECURSIVE QueuedFrom(_, _, _, _)
QueuedFrom(googleRow, columnMappings, currentRowIndex, i) ==
  IF i >= Len(columnMappings) THEN <<>>
  ELSE (IF QueuesImage(googleRow, columnMappings[i + 1], i)
        THEN <<[rowIndex |-> QueueRowIndex(currentRowIndex),
                columnId |-> columnMappings[i + 1].smartsheetColumnId,
                imageUrl |->
                  googleRow[GoogleColumnIndex(columnMappings[i + 1], i) + 1]
                    .imageUrl]>>
        ELSE <<>>)
       \o QueuedFrom(googleRow, columnMappings, currentRowIndex, i + 1)

(* convertRowToSmartsheet: the cells it returns and the entries it adds    *)
(* to the image queue                                                      *)
ConvertRowCells(googleRow, columnMappings, currentRowIndex) ==
  [ cells |-> [m \in 1..Len(columnMappings) |->
                 ConvertCell(googleRow, columnMappings[m], m - 1)],
    queued |-> QueuedFrom(googleRow, columnMappings, currentRowIndex, 0) ]

(* the conversion loop of a batch, rows number rowIndex .. last *)
RECURSIVE ConvertRowsFrom(_, _, _)
ConvertRowsFrom(batch, columnMappings, rowIndex) ==
  IF rowIndex >= Len(batch)
  THEN [smartsheetRows |-> <<>>, imageQueue |-> <<>>]
  ELSE LET row == ConvertRowCells(batch[rowIndex + 1], columnMappings, rowIndex)
           rest == ConvertRowsFrom(batch, columnMappings, rowIndex + 1)
       IN  [smartsheetRows |->
              <<[src |-> rowIndex, cells |-> row.cells]>> \o rest.smartsheetRows,
            imageQueue |-> row.queued \o rest.imageQueue]

InitConvert ==
  /\ InitIdle
  /\ \E batch \in GoogleBatches, columnMappings \in RowMappings :
       call = [op |-> "convert", batch |-> batch,
               columnMappings |-> columnMappings,
               smartsheetRows |-> <<>>, imageQueue |-> <<>>,
               result |-> <<>>, sheet |-> <<>>, imgIdx |-> 1, applied |-> <<>>]

(* the conversion loop of the batch *)
ConvertBatchCall ==
  /\ call.op = "convert"
  /\ LET c == ConvertRowsFrom(call.batch, call.columnMappings, 0)
     IN  call' = [call EXCEPT !.op = "insert",
                              !.smartsheetRows = c.smartsheetRows,
                              !.imageQueue = c.imageQueue]
  /\ UNCHANGED progVars

(* addRowsToSheet for the batch: the sheet creates the submitted rows in   *)
(* the order sent and answers with them, or rejects the call               *)
InsertBatchCall ==
  /\ call.op = "insert"
  /\ \E ok \in BOOLEAN :
       LET rows == call.smartsheetRows
           res == IF ok THEN AddRowsSuccess(rows, ResponseResult(<<>>, rows))
                  ELSE AddRowsFailure(rows, "Request failed")
           sheet == IF ok
                    THEN [k \in 1..Len(rows) |->
                            [id |-> NewRowId(<<>>, k), src |-> rows[k].src,
                             cells |-> rows[k].cells]]
                    ELSE <<>>
       IN  call' = [call EXCEPT
                      !.op = IF StartsImageQueue(call.imageQueue, res)
                             THEN "images" ELSE "done",
                      !.result = res.result,
                      !.sheet = sheet]
  /\ UNCHANGED progVars

(* one entry of processImageQueue: the image is attached, or written as a  *)
(* link, to the cell columnId of the row insertedRows[rowIndex], or fails  *)
ImageQueueCall ==
  /\ call.op = "images"
  /\ \E outcome \in {"successful", "fallback", "failed"} :
       LET item == call.imageQueue[call.imgIdx]
           insertedRow == InsertedRow(call.result, item.rowIndex)
           o == IF insertedRow.id = 0 THEN "failed" ELSE outcome
       IN  call' = [call EXCEPT
                      !.op = IF call.imgIdx < Len(call.imageQueue) THEN "images"
                             ELSE "done",
                      !.imgIdx = @ + 1,
                      !.applied = Append(@, [rowId |-> insertedRow.id,
                                             columnId |-> item.columnId,
                                             imageUrl |-> item.imageUrl,
                                             outcome |-> o])]
  /\ UNCHANGED progVars

NextConvert == ConvertBatchCall \/ InsertBatchCall \/ ImageQueueCall

SpecConvert == InitConvert /\ [][NextConvert]_vars

(* the source cell mapping number m (from 1) reads from row number r *)
MappedCell(r, m) ==
  LET mapping == call.columnMappings[m]
      index == IF mapping.googleColumnIndex # Undefined
               THEN mapping.googleColumnIndex ELSE m - 1
  IN  IF index + 1 \in DOMAIN call.batch[r] THEN call.batch[r][index + 1]
      ELSE [PlainCell("") EXCEPT !.value = "missing"]

Converted == call.op \in {"insert", "images", "done"}

(* the cells of the submitted rows in submission order *)
SubmittedCells ==
  {<<r, m>> : r \in DOMAIN call.smartsheetRows, m \in DOMAIN call.columnMappings}

(***************************************************************************)
(* C38: convertRowToSmartsheet returns exactly one destination cell per    *)
(* column mapping, in mapping order, each with that mapping's destination  *)
(* column id; an image cell yields the placeholder text and exactly one    *)
(* queue entry with the batch-local row index and that column id; a        *)
(* missing source cell yields an empty value; the queue of a batch has as  *)
(* many entries as placeholder cells were submitted.                       *)
(***************************************************************************)
C38_ConvertRow ==
  Converted =>
    /\ Len(call.smartsheetRows) = Len(call.batch)
    /\ \A r \in DOMAIN call.smartsheetRows :
         LET cells == call.smartsheetRows[r].cells
         IN  /\ Len(cells) = Len(call.columnMappings)
             /\ \A m \in DOMAIN cells :
                  LET src == MappedCell(r, m)
                      entries == {k \in DOMAIN call.imageQueue :
                                    /\ call.imageQueue[k].rowIndex = r - 1
                                    /\ call.imageQueue[k].columnId
                                         = cells[m].columnId}
                  IN  /\ cells[m].columnId
                           = call.columnMappings[m].smartsheetColumnId
                      /\ src.value = "missing" => cells[m].value = ""
                      /\ src.isImage =>
                           /\ cells[m].value = Placeholder
                           /\ Cardinality(entries) = 1
                           /\ \A k \in entries :
                                call.imageQueue[k].imageUrl = src.imageUrl
                      /\ ~src.isImage =>
                           cells[m].value # Placeholder /\ entries = {}
    /\ Len(call.imageQueue)
         = Cardinality({x \in SubmittedCells :
              call.smartsheetRows[x[1]].cells[x[2]].value = Placeholder})

(* a batch whose second row has an image under its second mapping and a    *)
(* missing cell under another mapping was converted                        *)
C38_Witness ==
  /\ Converted
  /\ Len(call.batch) = 2 /\ Len(call.columnMappings) = 2
  /\ \E m \in 1..2 : MappedCell(2, m).value = "missing"
  /\ MappedCell(2, 2).isImage
  /\ Len(call.imageQueue) >= 2

ImageOutcomes(progress) ==
  progress.successfulImages + progress.fallbackImages + progress.failedImages

(***************************************************************************)
(* C35: in every persisted progress record of a live transfer              *)
(* successfulImages + fallbackImages + failedImages <= processedImages     *)
(* <= totalImages, and when the job is completed every image counted in    *)
(* processedImages has an outcome: the three counters add up to            *)
(* processedImages, also when a batch insert failed.                       *)
(***************************************************************************)
C35_ImageCountersConsistent ==
  ~job.dryRun =>
    /\ ImageOutcomes(job.progress) <= job.progress.processedImages
    /\ job.progress.processedImages <= job.progress.totalImages
    /\ job.status = "completed" =>
         ImageOutcomes(job.progress) = job.progress.processedImages

FlowStep(p) ==
  \/ ValidateTokens(p)
  \/ GetSpreadsheetData(p)
  \/ GetSheetDetails(p)
  \/ AddRowsToSheet(p)
  \/ ProcessImageQueue(p)
  \/ DryRunData(p)
  \/ DryRunValidate(p)

(* the executions on a source of one tab with at most one image, in its   *)
(* first data row                                                          *)
InitLive ==
  /\ Init
  /\ Len(tabLen) = 1
  /\ imgCells \subseteq {<<1, 1>>}

SpecLive ==
  InitLive /\ [][Next]_vars /\ WF_vars(\E p \in Procs : FlowStep(p))

Started(p) == pc[p] \notin {"idle", "done"}

NumJobs == 2
MaxFlowWrites == 1

JobIds == 1..NumJobs

Statuses == {"pending", "running", "completed", "failed", "cancelled"}

StoredJob(status) ==
  [status |-> status,
   processedRows |-> IF status = "pending" THEN 0 ELSE 1,
   completedAt |-> status \in {"completed", "failed", "cancelled"}]

(* updateTransferJobStatus: UPDATE transfer_jobs SET status = ? [,         *)
(* progress = ?] [, completed_at = CURRENT_TIMESTAMP] WHERE id = ?         *)
StoreStatus(jobs, id, status, processedRows) ==
  [jobs EXCEPT ![id] =
     [status |-> status,
      processedRows |-> IF processedRows # Undefined THEN processedRows
                        ELSE @.processedRows,
      completedAt |-> IF status \in {"completed", "failed", "cancelled"}
                      THEN TRUE ELSE @.completedAt]]

InitCancel ==
  /\ InitIdle
  /\ \E jobs \in [JobIds -> Statuses], jobId \in 1..(NumJobs + 1) :
       call = [op |-> "cancelTransfer",
               jobs |-> [id \in JobIds |-> StoredJob(jobs[id])],
               jobId |-> jobId,
               at |-> "idle",
               job |-> StoredJob("pending"),
               before |-> <<>>,
               after |-> <<>>,
               flowWrites |-> 0]

(* const job = await database.getTransferJobById(jobId) *)
CancelGetJob ==
  /\ call.op = "cancelTransfer"
  /\ call.at = "idle"
  /\ call' = IF call.jobId \in JobIds
             THEN [call EXCEPT !.at = "getJob", !.job = call.jobs[call.jobId]]
             ELSE [call EXCEPT !.at = "notFound"]
  /\ UNCHANGED progVars

(* after the await: throw for no job; for a job read as running            *)
(* await database.updateTransferJobStatus(jobId, 'cancelled')              *)
CancelSetCancelled ==
  /\ call.op = "cancelTransfer"
  /\ call.at \in {"getJob", "notFound"}
  /\ call' = IF call.at = "notFound"
             THEN [call EXCEPT !.at = "thrown", !.before = call.jobs,
                               !.after = call.jobs]
             ELSE LET jobs == IF call.job.status = "running"
                              THEN StoreStatus(call.jobs, call.jobId,
                                               "cancelled", Undefined)
                              ELSE call.jobs
                  IN  [call EXCEPT !.at = "returned", !.before = call.jobs,
                                   !.jobs = jobs, !.after = jobs]
  /\ UNCHANGED progVars

(* the flow of a running job stores its next record: the progress after a  *)
(* batch, or its final status                                              *)
FlowStores ==
  /\ call.op = "cancelTransfer"
  /\ call.flowWrites < MaxFlowWrites
  /\ \E id \in JobIds, status \in {"running", "completed", "failed"} :
       /\ call.jobs[id].status = "running"
       /\ call' = [call EXCEPT
                     !.flowWrites = @ + 1,
                     !.jobs = StoreStatus(@, id, status,
                                IF status = "completed" THEN Undefined
                                ELSE call.jobs[id].processedRows + 1)]
  /\ UNCHANGED progVars

NextCancel == CancelGetJob \/ CancelSetCancelled \/ FlowStores

SpecCancel == InitCancel /\ [][NextCancel]_vars

(***************************************************************************)
(* C39: cancelTransfer changes the status of a job only when the stored    *)
(* status is running at the time of the write; on a pending, completed,    *)
(* failed or cancelled job it leaves the whole job record unchanged; on    *)
(* an unknown job id it fails with an error; it never modifies progress    *)
(* or another job.                                                         *)
(***************************************************************************)
C39_CancelOnlyRunning ==
  /\ call.op = "cancelTransfer" /\ call.at = "returned" =>
       /\ call.before[call.jobId].status # "running"
            => call.after[call.jobId] = call.before[call.jobId]
       /\ call.after[call.jobId].processedRows
            = call.before[call.jobId].processedRows
       /\ \A id \in JobIds \ {call.jobId} : call.after[id] = call.before[id]
  /\ call.op = "cancelTransfer" /\ call.jobId \notin JobIds =>
       /\ call.at # "returned"
       /\ call.at = "thrown" => call.after = call.before

====
